---- MODULE Spec2Model ----
(***************************************************************************)
(* Camera-driven chess move detector (Arcane87/Chess-Robot-Arm).           *)
(*                                                                         *)
(* The module models the per-frame detection loop of findPieces: the       *)
(* belief-state update, the candidate move scorer, processState and the    *)
(* two commit paths (confirmed pair, greedy), together with the store      *)
(* round trip that refreshes boardRef, movesPairsRef and lastMoveRef.      *)
(* Spec drives the loop with frames of a physical board on which players   *)
(* move; SpecFrames drives it with free frames.                            *)
(*                                                                         *)
(* Confidences are fixed-point numbers in units of 1/Scale.  The rules     *)
(* engine (chess.js) is replaced by a small board game with the same       *)
(* interface: positions, legal moves, a short notation that names the      *)
(* piece and its destination (SAN) and a long one that names source and    *)
(* destination (LAN).                                                      *)
(***************************************************************************)
EXTENDS Integers, Sequences, FiniteSets, TLC

(***************************************************************************)
(* Bounds of the model.                                                    *)
(***************************************************************************)
NSq == 3            \* squares of the board (64 in the program)
NCls == 2           \* piece classes (12 in the program)
MaxScans == 6       \* loop iterations explored
MaxPhysMoves == 2   \* moves made on the physical board
MaxFrames == 4      \* loop iterations explored on free frames
MaxCoord == 4       \* piece base coordinates 0, 2, .. 2 * MaxCoord
MaxAdds == 6        \* direct calls of the piece-base buffer functions
MaxLate == 1        \* sockets of a run still connecting at their fallback timer
MaxRuns == 2        \* calls of executeRobotMove from the page
MaxOps == 1         \* clicks in PlaySidebar
MaxPlayScans == 13  \* loop iterations explored on the play page
MaxUpdates == 4    \* loop iterations explored for the belief update
MaxBoxes == 2      \* boxes detected in a frame
MaxCalls == 3      \* calls of getBestMove
MaxSelects == 2    \* choices in the colour menu
MaxSockets == 7    \* WebSocket objects RobotControl creates
MaxRequests == 2   \* calls of sendBridgeCommand

(***************************************************************************)
(* Program constants, in fixed point.                                      *)
(***************************************************************************)
Scale == 1000           \* the confidence 1.0
FROM_THR == 600         \* from_thr = 0.6
TO_THR == 600           \* to_thr = 0.6
DECAY_NUM == 1          \* decay = 0.5 = DECAY_NUM / DECAY_DEN
DECAY_DEN == 2
GREEDY_DELAY == 1000    \* ms a greedy move has to be known before it commits
NEGATIVE_INFINITY == -1000000
GREEDY_MOVE_KEY == 0    \* the fixed key "greedyMove" of the timer map
NO_LAN == 0             \* the empty string held by lastMoveRef before any move

Squares == 0 .. (NSq - 1)
Classes == 0 .. (NCls - 1)
EMPTY == -1             \* no piece on a square
NO_SAN == -1            \* no notation (the descriptor is null)
Frames == {"seen", "blank"}  \* the pieces are detected, or nothing is
Deltas == {600}           \* ms between two iterations of the loop
PlayCoords == {<<0, 0>>}  \* piece base coordinates seen on the play page

(***************************************************************************)
(* Rules engine.  A piece of class c belongs to colour c % 2; the side to  *)
(* move may move one of its pieces to any square not held by a piece of    *)
(* its own colour, capturing what stands there.                            *)
(***************************************************************************)
Colour(c) == c % 2

InitPos == [s \in Squares |-> IF s = 0 THEN 0 ELSE IF s = NSq - 1 THEN 1 ELSE EMPTY]

InitBoard == [pos |-> InitPos, turn |-> 0]

Legal(b, a, t) ==
    /\ a # t
    /\ b.pos[a] # EMPTY
    /\ Colour(b.pos[a]) = b.turn
    /\ \/ b.pos[t] = EMPTY
       \/ Colour(b.pos[t]) # b.turn

LanOf(a, t) == a * NSq + t + 1

LanFrom(l) == (l - 1) \div NSq

LanTo(l) == (l - 1) % NSq

SanOf(b, a, t) == b.pos[a] * NSq + t + 1

LegalLans(b) == {LanOf(a, t) : <<a, t>> \in {p \in Squares \X Squares : Legal(b, p[1], p[2])}}

ApplyLan(b, l) ==
    [pos |-> [s \in Squares |-> IF s = LanFrom(l) THEN EMPTY
                                ELSE IF s = LanTo(l) THEN b.pos[LanFrom(l)]
                                ELSE b.pos[s]],
     turn |-> 1 - b.turn]

\* the legal moves a short notation resolves to on board b
Resolve(b, san) == {l \in LegalLans(b) : SanOf(b, LanFrom(l), LanTo(l)) = san}

CanMove(b, san) == Resolve(b, san) # {}

BoardMove(b, san) == ApplyLan(b, CHOOSE l \in Resolve(b, san) : TRUE)

RECURSIVE SortedSeq(_)
SortedSeq(S) ==
    IF S = {} THEN <<>>
    ELSE LET m == CHOOSE x \in S : \A y \in S : x <= y
         IN  <<m>> \o SortedSeq(S \ {m})

LegalSeq(b) == SortedSeq(LegalLans(b))

(***************************************************************************)
(* Move descriptors (MovesData, MovesPair).                                *)
(***************************************************************************)
getMoveData(b, l) ==
    [sans |-> <<SanOf(b, LanFrom(l), LanTo(l))>>,
     from |-> <<LanFrom(l)>>,
     to |-> <<LanTo(l)>>,
     targets |-> <<b.pos[LanFrom(l)]>>]

SeqRange(q) == {q[i] : i \in 1 .. Len(q)}

RECURSIVE KeepIdx(_, _, _)
\* the subsequence of q at the indices whose key k[i] is not in bad
KeepIdx(q, k, bad) ==
    IF q = <<>> THEN <<>>
    ELSE (IF Head(k) \in bad THEN <<>> ELSE <<Head(q)>>) \o KeepIdx(Tail(q), Tail(k), bad)

combineData(d1, d2) ==
    LET bad == SeqRange(d2.from) \cup SeqRange(d2.to)
    IN  [sans |-> d1.sans \o d2.sans,
         from |-> KeepIdx(d1.from, d1.from, bad) \o d2.from,
         to |-> KeepIdx(d1.to, d1.to, bad) \o d2.to,
         targets |-> KeepIdx(d1.targets, d1.to, bad) \o d2.targets]

NoData == [sans |-> <<>>, from |-> <<>>, to |-> <<>>, targets |-> <<>>]

IsNull(d) == d.sans = <<>>

PairsOfMove(b, l) ==
    LET b1 == ApplyLan(b, l)
        d1 == getMoveData(b, l)
        replies == LegalSeq(b1)
    IN  IF replies = <<>>
        THEN <<[move1 |-> d1, move2 |-> NoData, moves |-> NoData]>>
        ELSE [i \in 1 .. Len(replies) |->
                 [move1 |-> d1,
                  move2 |-> getMoveData(b1, replies[i]),
                  moves |-> combineData(d1, getMoveData(b1, replies[i]))]]

RECURSIVE Flatten(_)
Flatten(qq) == IF qq = <<>> THEN <<>> ELSE Head(qq) \o Flatten(Tail(qq))

getMovesPairs(b) ==
    LET ms == LegalSeq(b)
    IN  Flatten([i \in 1 .. Len(ms) |-> PairsOfMove(b, ms[i])])

(***************************************************************************)
(* Score accumulator and candidate move scorer.                            *)
(***************************************************************************)
zeros == [s \in Squares |-> [c \in Classes |-> 0]]

(***************************************************************************)
(* Square assignment of the detected boxes and the update matrix.          *)
(***************************************************************************)
\* a box is [l, r, b]: its left, right and bottom edge
getBoxCenters(box) ==
    <<(box.l + box.r) \div 2, box.b - (box.r - box.l) \div 3>>

\* tf.argMin of the squared distances: the first square at the least distance
ArgMin(p, centers) ==
    LET dist(s) == (p[1] - centers[s][1]) * (p[1] - centers[s][1])
                   + (p[2] - centers[s][2]) * (p[2] - centers[s][2])
    IN  CHOOSE s \in DOMAIN centers :
            \A t \in DOMAIN centers :
                dist(s) <= dist(t) /\ (dist(s) = dist(t) => s <= t)

\* det = a * d - b * c for the four edges, against the boundary rotated by
\* one vertex
Det(p, boundary) ==
    LET shiftedBoundary == Tail(boundary) \o <<Head(boundary)>>
    IN  [k \in DOMAIN boundary |->
            LET a == boundary[k][1] - shiftedBoundary[k][1]
                b == boundary[k][2] - shiftedBoundary[k][2]
                c == p[1] - shiftedBoundary[k][1]
                d == p[2] - shiftedBoundary[k][2]
            IN  a * d - b * c]

getSquares_NoBoundary(boxes, centers, boundary) ==
    [i \in DOMAIN boxes |-> ArgMin(getBoxCenters(boxes[i]), centers)]

getSquares(boxes, centers, boundary) ==
    [i \in DOMAIN boxes |->
        IF \E k \in DOMAIN boundary : Det(getBoxCenters(boxes[i]), boundary)[k] < 0
        THEN -1
        ELSE ArgMin(getBoxCenters(boxes[i]), centers)]

getUpdate(scores, squares) ==
    LET RECURSIVE From(_, _)
        From(update, i) ==
            IF i > Len(squares) THEN update
            ELSE From(IF squares[i] = -1 THEN update
                      ELSE [update EXCEPT ![squares[i]] =
                               [j \in Classes |->
                                   IF scores[i][j] > @[j] THEN scores[i][j] ELSE @[j]]],
                      i + 1)
    IN  From(zeros, 1)

updateState_NoDecay(state, update) ==
    [s \in DOMAIN state |-> [c \in DOMAIN state[s] |-> update[s][c]]]

updateState(state, update) ==
    [s \in DOMAIN state |->
        [c \in DOMAIN state[s] |->
            (DECAY_NUM * state[s][c] + (DECAY_DEN - DECAY_NUM) * update[s][c]) \div DECAY_DEN]]

MaxOf(S) == CHOOSE x \in S : \A y \in S : y <= x

MaxConf(state, sq) == MaxOf({state[sq][c] : c \in DOMAIN state[sq]})

RECURSIVE FromSum(_, _)
FromSum(state, from) ==
    IF from = <<>> THEN 0
    ELSE (Scale - MaxConf(state, Head(from)) - FROM_THR) + FromSum(state, Tail(from))

RECURSIVE ToSum(_, _, _)
ToSum(state, to, targets) ==
    IF to = <<>> THEN 0
    ELSE (state[Head(to)][Head(targets)] - TO_THR) + ToSum(state, Tail(to), Tail(targets))

calculateScore_ToOnly(state, move) == ToSum(state, move.to, move.targets)

calculateScore(state, move) == FromSum(state, move.from) + ToSum(state, move.to, move.targets)

(***************************************************************************)
(* processState: one pass over the move pairs, in list order.              *)
(***************************************************************************)
\* `x in seen` on a Set tests for a property of the object, which add()
\* never creates: the test is false for every notation
InSeen(san, seen) == FALSE

InitAcc(possibleMoves) ==
    [bestScore1 |-> NEGATIVE_INFINITY,
     bestScore2 |-> NEGATIVE_INFINITY,
     bestJointScore |-> NEGATIVE_INFINITY,
     bestMove |-> NoData,
     bestMoves |-> NoData,
     seen |-> {},
     possibleMoves |-> possibleMoves]

\* variant: only a new best move is added to possibleMoves
ScoreFirst_BestOnly(acc, state, movePair) ==
    LET san == movePair.move1.sans[1]
        score == calculateScore(state, movePair.move1)
    IN  IF InSeen(san, acc.seen) THEN acc
        ELSE [acc EXCEPT
                 !.seen = @ \cup {san},
                 !.possibleMoves = IF score > 0 /\ score > acc.bestScore1
                                   THEN @ \cup {san} ELSE @,
                 !.bestMove = IF score > acc.bestScore1 THEN movePair.move1 ELSE @,
                 !.bestScore1 = IF score > @ THEN score ELSE @]

\* variant: a later first move with the same score replaces the best move
ScoreFirst_LastBest(acc, state, movePair) ==
    LET san == movePair.move1.sans[1]
        score == calculateScore(state, movePair.move1)
    IN  IF InSeen(san, acc.seen) THEN acc
        ELSE [acc EXCEPT
                 !.seen = @ \cup {san},
                 !.possibleMoves = IF score > 0 THEN @ \cup {san} ELSE @,
                 !.bestMove = IF score >= acc.bestScore1 THEN movePair.move1 ELSE @,
                 !.bestScore1 = IF score > @ THEN score ELSE @]

ScoreFirst(acc, state, movePair) ==
    LET san == movePair.move1.sans[1]
        score == calculateScore(state, movePair.move1)
    IN  IF InSeen(san, acc.seen) THEN acc
        ELSE [acc EXCEPT
                 !.seen = @ \cup {san},
                 !.possibleMoves = IF score > 0 THEN @ \cup {san} ELSE @,
                 !.bestMove = IF score > acc.bestScore1 THEN movePair.move1 ELSE @,
                 !.bestScore1 = IF score > @ THEN score ELSE @]

\* variant: the pair is looked at whether or not its first move is plausible
ScoreSecond_AnyFirst(acc, state, movePair) ==
    IF IsNull(movePair.move2) \/ IsNull(movePair.moves)
    THEN acc
    ELSE LET score2 == calculateScore(state, movePair.move2)
             jointScore == calculateScore(state, movePair.moves)
             acc2 == [acc EXCEPT !.bestScore2 = IF score2 > @ THEN score2 ELSE @]
         IN  IF score2 < 0 THEN acc
             ELSE IF jointScore > acc2.bestJointScore
                  THEN [acc2 EXCEPT !.bestJointScore = jointScore,
                                    !.bestMoves = movePair.moves]
                  ELSE acc2

ScoreSecond(acc, state, movePair) ==
    IF \/ IsNull(movePair.move2)
       \/ IsNull(movePair.moves)
       \/ movePair.move1.sans[1] \notin acc.possibleMoves
    THEN acc
    ELSE LET score2 == calculateScore(state, movePair.move2)
             jointScore == calculateScore(state, movePair.moves)
             acc2 == [acc EXCEPT !.bestScore2 = IF score2 > @ THEN score2 ELSE @]
         IN  IF score2 < 0 THEN acc
             ELSE IF jointScore > acc2.bestJointScore
                  THEN [acc2 EXCEPT !.bestJointScore = jointScore,
                                    !.bestMoves = movePair.moves]
                  ELSE acc2

RECURSIVE ProcessFrom(_, _, _)
ProcessFrom(acc, state, movesPairs) ==
    IF movesPairs = <<>> THEN acc
    ELSE ProcessFrom(ScoreSecond(ScoreFirst(acc, state, Head(movesPairs)),
                                 state, Head(movesPairs)),
                     state, Tail(movesPairs))

processState(state, movesPairs, possibleMoves) ==
    ProcessFrom(InitAcc(possibleMoves), state, movesPairs)

PrimarySan(d) == IF IsNull(d) THEN NO_SAN ELSE d.sans[1]

sanToLan(board, san) == CHOOSE l \in Resolve(board, san) : TRUE

(***************************************************************************)
(* The commit rules of the loop.                                           *)
(***************************************************************************)
\* variant: the joint score is not looked at
ConfirmedPairFires_NoJoint(r, md) ==
    /\ ~IsNull(r.bestMoves)
    /\ md # "play"
    /\ r.bestScore2 > 0
    /\ r.bestMoves.sans[1] \in r.possibleMoves

\* variant: the mode is not looked at
ConfirmedPairFires_AnyMode(r, md) ==
    /\ ~IsNull(r.bestMoves)
    /\ r.bestScore2 > 0
    /\ r.bestJointScore > 0
    /\ r.bestMoves.sans[1] \in r.possibleMoves

\* hasMove
ConfirmedPairFires(r, md) ==
    /\ ~IsNull(r.bestMoves)
    /\ md # "play"
    /\ r.bestScore2 > 0
    /\ r.bestJointScore > 0
    /\ r.bestMoves.sans[1] \in r.possibleMoves

\* variant: the greedy path does not look at hasMove
GreedyEntered_AfterPair(r, hasMove) ==
    /\ ~IsNull(r.bestMove)
    /\ r.bestScore1 > 0

\* the greedy path is entered
GreedyEntered(r, hasMove) ==
    /\ ~IsNull(r.bestMove)
    /\ ~hasMove
    /\ r.bestScore1 > 0

\* greedyMoveToTime after the first-seen timestamp has been recorded
RecordFirstSeen(timers, move, endTime) ==
    IF move \in DOMAIN timers THEN timers ELSE (move :> endTime) @@ timers

\* variant: a tenth of the delay
secondElapsed_Short(timers, move, endTime) == (endTime - timers[move]) > 100

secondElapsed(timers, move, endTime) == (endTime - timers[move]) > GREEDY_DELAY

\* variant: the last committed move is not looked at
newMove_Always(board, move, lastMove) == TRUE

newMove(board, move, lastMove) == sanToLan(board, move) # lastMove

\* variant: the map is kept
TimersAfterGreedy_Keep(timers, move) == timers

\* greedyMoveToTime after a greedy commit
TimersAfterGreedy(timers, move) == (GREEDY_MOVE_KEY :> timers[move])

\* variant: the flag is hasGreedyMove in every mode
PayloadGreedy_Raw(md, hasGreedyMove) == hasGreedyMove

\* the greedy flag of the dispatched payload
PayloadGreedy(md, hasGreedyMove) == IF md = "play" THEN FALSE ELSE hasGreedyMove

\* gameUpdate is dispatched
Dispatches(hasMove, hasGreedyMove) == hasMove \/ hasGreedyMove

EmptyTimers == [k \in {} |-> 0]

makeUpdatePayload(before, after, lan, greedy) ==
    [before |-> before, after |-> after, lastMove |-> lan, greedy |-> greedy]

(***************************************************************************)
(* Piece-base averaging of the robot move executor.  A coordinate is a     *)
(* pair of integers; a mean is kept exact, as a pair of reduced fractions. *)
(***************************************************************************)
FRAMES_TO_AVERAGE == 5

NO_COORD == <<>>           \* undefined: no coordinate, no average

RECURSIVE GCD(_, _)
GCD(a, b) == IF b = 0 THEN a ELSE GCD(b, a % b)

\* the number n / d
Quot(n, d) == <<n \div GCD(n, d), d \div GCD(n, d)>>

RECURSIVE SumCoords(_)
SumCoords(coords) ==
    IF coords = <<>> THEN <<0, 0>>
    ELSE LET acc == SumCoords(SubSeq(coords, 1, Len(coords) - 1))
             coord == coords[Len(coords)]
         IN  <<acc[1] + coord[1], acc[2] + coord[2]>>

averageCoordinates(coords) ==
    IF Len(coords) = 0 THEN <<Quot(0, 1), Quot(0, 1)>>
    ELSE <<Quot(SumCoords(coords)[1], Len(coords)),
           Quot(SumCoords(coords)[2], Len(coords))>>

NewBuffer == [sourcePieceBase |-> <<>>, capturedPieceBase |-> <<>>, frameCount |-> 0]

NoBuffers == [k \in {} |-> NewBuffer]

\* the function f without the key k
DeleteKey(f, k) == [j \in (DOMAIN f) \ {k} |-> f[j]]

\* the function f with the key k set to v
SetKey(f, k, v) == [j \in (DOMAIN f) \cup {k} |-> IF j = k THEN v ELSE f[j]]

PushObservation(buffer, sourcePieceBase, capturedPieceBase) ==
    [sourcePieceBase |-> Append(buffer.sourcePieceBase, sourcePieceBase),
     capturedPieceBase |-> IF capturedPieceBase # NO_COORD
                           THEN Append(buffer.capturedPieceBase, capturedPieceBase)
                           ELSE buffer.capturedPieceBase,
     frameCount |-> buffer.frameCount + 1]

BufferFull_Early(buffer) == buffer.frameCount >= FRAMES_TO_AVERAGE - 1

BufferFull(buffer) == buffer.frameCount >= FRAMES_TO_AVERAGE

\* the buffers after the call and what the call returns
addToPieceBaseBuffer(buffers, moveKey, sourcePieceBase, capturedPieceBase) ==
    LET buffer == PushObservation(IF moveKey \in DOMAIN buffers THEN buffers[moveKey]
                                  ELSE NewBuffer,
                                  sourcePieceBase, capturedPieceBase)
    IN  IF BufferFull(buffer)
        THEN [buffers |-> DeleteKey(buffers, moveKey),
              ready |-> TRUE,
              sourceAvg |-> averageCoordinates(buffer.sourcePieceBase),
              capturedAvg |-> IF Len(buffer.capturedPieceBase) > 0
                              THEN averageCoordinates(buffer.capturedPieceBase)
                              ELSE NO_COORD]
        ELSE [buffers |-> SetKey(buffers, moveKey, buffer),
              ready |-> FALSE, sourceAvg |-> NO_COORD, capturedAvg |-> NO_COORD]

clearPieceBaseBuffer(buffers, moveKey) == DeleteKey(buffers, moveKey)

(***************************************************************************)
(* The command list of executeRobotMove.  A pose is named by the place it  *)
(* is built from (a square number, the drop zone, home) and its height.    *)
(***************************************************************************)
SquarePose(sq, z) == [place |-> "square", sq |-> sq, z |-> z]

DropPose(z) == [place |-> "drop", sq |-> 0, z |-> z]

HomePose == [place |-> "home", sq |-> 0, z |-> "own"]

MoveCommand(pose, moveType, delay) ==
    [type |-> "move", pose |-> pose, moveType |-> moveType, action |-> "", delay |-> delay]

GripperCommand(action, delay) ==
    [type |-> "gripper", pose |-> HomePose, moveType |-> "", action |-> action, delay |-> delay]

\* pick the piece up at square from and put it down at pose to
Relocate(from, toClearance, toPickup) ==
    << MoveCommand(SquarePose(from, "clearance"), "clearance", 3500),
       MoveCommand(SquarePose(from, "pickup"), "vertical", 1000),
       GripperCommand("close", 500),
       MoveCommand(SquarePose(from, "clearance"), "vertical", 1000),
       MoveCommand(toClearance, "clearance", 3500),
       MoveCommand(toPickup, "vertical", 1000),
       GripperCommand("open", 500),
       MoveCommand(toClearance, "vertical", 1000) >>

ReturnHome == << MoveCommand(HomePose, "clearance", 4000) >>

NonCaptureSequence(moveData) ==
    Relocate(moveData.sourceSquare,
             SquarePose(moveData.destSquare, "clearance"),
             SquarePose(moveData.destSquare, "pickup")) \o ReturnHome

CaptureSequence_SourceFirst(moveData) ==
    NonCaptureSequence(moveData)
    \o Relocate(moveData.destSquare, DropPose("clearance"), DropPose("own"))

CaptureSequence(moveData) ==
    Relocate(moveData.destSquare, DropPose("clearance"), DropPose("own"))
    \o NonCaptureSequence(moveData)

CommandsOf_NoHome(moveData) ==
    IF ~moveData.isCapture
    THEN SubSeq(NonCaptureSequence(moveData), 1, 8)
    ELSE CaptureSequence(moveData)

\* variant: with a measured piece base the approach above the source square
\* is left out
CommandsOf_BaseAware(moveData) ==
    LET commands == IF ~moveData.isCapture THEN NonCaptureSequence(moveData)
                    ELSE CaptureSequence(moveData)
    IN  IF moveData.sourcePieceBaseCamera = NO_COORD THEN commands
        ELSE Tail(commands)

CommandsOf(moveData) ==
    IF ~moveData.isCapture THEN NonCaptureSequence(moveData) ELSE CaptureSequence(moveData)

(***************************************************************************)
(* One call of executeRobotMove and the WebSockets of its commands.        *)
(* sendCommand opens one socket per command; the socket of command i of a  *)
(* run is sockets[i]: ws is its readyState, t500 and t1000 tell whether    *)
(* the timer set in onopen and the fallback timer are still to fire.       *)
(***************************************************************************)
NewSocket == [ws |-> "connecting", t500 |-> FALSE, t1000 |-> TRUE]

NoSockets == [i \in {} |-> NewSocket]

\* the socket of command i can still change the run or send its command:
\* the promise of its sendCommand is pending, or it is still connecting (once
\* the promise has settled, the timers and onerror have no effect)
Live(run, i) ==
    \/ Len(run.issued) = i /\ run.phase = "send"
    \/ run.sockets[i].ws = "connecting"

KeepLive(run) ==
    [run EXCEPT !.sockets = [i \in {j \in DOMAIN run.sockets : Live(run, j)} |->
                                run.sockets[i]]]

NewRun(moveData) ==
    [moveData |-> moveData, issued |-> <<>>, phase |-> "start",
     sockets |-> NoSockets, timedOut |-> {}, errored |-> {}, afterError |-> FALSE]

\* the promise of sendCommand for command i resolves
ResolvePromise(run, i) ==
    IF Len(run.issued) = i /\ run.phase = "send"
    THEN [run EXCEPT !.phase = "delay"] ELSE run

\* the promise of sendCommand for command i rejects: executeCommand rethrows
\* and executeRobotMove rejects
RejectPromise(run, i) ==
    IF Len(run.issued) = i /\ run.phase = "send"
    THEN [run EXCEPT !.phase = "rejected"] ELSE run

\* executeCommand(command) is called: sendCommand creates the socket, or
\* new WebSocket throws
Issue(run, created) ==
    LET i == Len(run.issued) + 1
        sent == [run EXCEPT !.issued = Append(@, CommandsOf(run.moveData)[i]),
                            !.phase = "send",
                            !.afterError = @ \/ run.errored # {}]
    IN  IF created
        THEN [sent EXCEPT !.sockets = SetKey(@, i, NewSocket)]
        ELSE [RejectPromise(sent, i) EXCEPT !.errored = @ \cup {i}]

\* executeRobotMove up to its first await
StartRun(moveData, posesAvailable, created) ==
    IF posesAvailable THEN Issue(NewRun(moveData), created)
    ELSE [NewRun(moveData) EXCEPT !.phase = "rejected"]

Settled(run) == run.phase \in {"resolved", "rejected"}

(***************************************************************************)
(* The pending engine move (stockfishMoveRef) and the piece-base buffer of *)
(* the detection loop.  Of the fields of stockfishMoveRef.current the ones *)
(* that are only displayed (sourceCoord, destCoord, the per-frame piece    *)
(* base coordinates) are left out.                                         *)
(***************************************************************************)
NoMove ==
    [uciMove |-> NO_LAN, isCapture |-> FALSE, capturedSquare |-> EMPTY,
     readyForExecution |-> FALSE,
     averagedSourcePieceBase |-> NO_COORD, averagedCapturedPieceBase |-> NO_COORD,
     sourceSquareNumber |-> 0, destSquareNumber |-> 0]

NoPieceBaseBuffer ==
    [source |-> <<>>, captured |-> <<>>, moveKey |-> NO_LAN,
     collecting |-> FALSE, framesCollected |-> 0]

NoBases == [s \in {} |-> NO_COORD]

\* squareToPieceBase[sq], undefined when no box was assigned to the square
BaseAt(squareToPieceBase, sq) ==
    IF sq \in DOMAIN squareToPieceBase THEN squareToPieceBase[sq] ELSE NO_COORD

\* the buffer is reset when the pending move is not the buffered one
InstallKey_Keep(buffer, move) ==
    IF buffer.moveKey # move THEN [buffer EXCEPT !.moveKey = move, !.collecting = TRUE]
    ELSE buffer

InstallKey(buffer, move) ==
    IF buffer.moveKey # move
    THEN [source |-> <<>>, captured |-> <<>>, moveKey |-> move,
          collecting |-> TRUE, framesCollected |-> 0]
    ELSE buffer

Collects(buffer) == buffer.collecting /\ buffer.framesCollected < 5

PushFrame(buffer, sourceCoord, capturedCoord, isCapture) ==
    [buffer EXCEPT !.source = Append(@, sourceCoord),
                   !.captured = IF isCapture /\ capturedCoord # NO_COORD
                                THEN Append(@, capturedCoord) ELSE @,
                   !.framesCollected = @ + 1]

Averaged(buffer) == buffer.framesCollected >= 5

\* lines 610-734 of the loop: the pending move and the buffer after a frame
\* whose boxes were assigned to squares as squareToPieceBase
collectPieceBase(ref, buffer, squareToPieceBase) ==
    LET move == ref.uciMove
        fromIndex == LanFrom(move)
        toIndex == LanTo(move)
        sourceCoord == BaseAt(squareToPieceBase, fromIndex)
        capturedCoord == IF ref.isCapture /\ ref.capturedSquare # EMPTY
                         THEN BaseAt(squareToPieceBase, ref.capturedSquare)
                         ELSE NO_COORD
        installed == InstallKey(buffer, move)
        pushed == PushFrame(installed, sourceCoord, capturedCoord, ref.isCapture)
    IN  IF move = NO_LAN \/ sourceCoord = NO_COORD
        THEN [ref |-> ref, buffer |-> buffer]
        ELSE IF ~Collects(installed)
        THEN [ref |-> ref, buffer |-> installed]
        ELSE IF ~Averaged(pushed)
        THEN [ref |-> ref, buffer |-> pushed]
        ELSE [ref |-> [ref EXCEPT
                         !.averagedSourcePieceBase = averageCoordinates(pushed.source),
                         !.averagedCapturedPieceBase =
                             IF Len(pushed.captured) >= 5
                             THEN averageCoordinates(pushed.captured) ELSE NO_COORD,
                         !.readyForExecution = TRUE,
                         !.sourceSquareNumber = fromIndex + 1,
                         !.destSquareNumber = toIndex + 1],
              buffer |-> [pushed EXCEPT !.collecting = FALSE]]

(***************************************************************************)
(* PlaySidebar.                                                            *)
(***************************************************************************)
\* the move data handleExecuteRobotMove builds from the pending move
MoveDataOf(move) ==
    [sourceSquare |-> move.sourceSquareNumber, destSquare |-> move.destSquareNumber,
     sourcePieceBaseCamera |-> move.averagedSourcePieceBase,
     capturedPieceBaseCamera |-> move.averagedCapturedPieceBase,
     isCapture |-> move.isCapture, uciMove |-> move.uciMove]

Ready_Always(move) == TRUE

\* the guard of handleExecuteRobotMove
Ready(move) == move.readyForExecution /\ move.uciMove # NO_LAN

\* the dependencies of the auto mode effect
EffectDeps(ref, auto, lastExecuted) ==
    [ready |-> ref.readyForExecution, autoMode |-> auto, lastExecutedMove |-> lastExecuted]

\* the condition of the auto mode effect
AutoFires(ref, auto, lastExecuted) ==
    auto /\ ref.readyForExecution /\ ref.uciMove # NO_LAN /\ ref.uciMove # lastExecuted

\* what applyStockfishMove stores for the engine's move l on board b
EngineMoveOf(b, l) ==
    [NoMove EXCEPT !.uciMove = l,
                   !.isCapture = b.pos[LanTo(l)] # EMPTY,
                   !.capturedSquare = IF b.pos[LanTo(l)] # EMPTY THEN LanTo(l) ELSE EMPTY]

(***************************************************************************)
(* State of one findPieces instance and of what it shares with the page.   *)
(***************************************************************************)
VARIABLES
    mode,              \* the mode findPieces was started with
    centersNull,       \* centers === null: tracking has to (re)start
    state,             \* the belief state
    possibleMoves,     \* notations of the individually plausible first moves
    greedyMoveToTime,  \* notation -> time it was first seen as the best move
    boardRef,          \* the rules-engine board
    movesPairsRef,     \* the move pairs of the position of boardRef
    lastMoveRef,       \* long notation of the last committed move
    game,              \* the last payload handed to gameUpdate
    pc,                \* "loop": a frame is requested; "sync": a dispatch has
                       \* to reach the refs; "dead": the loop has thrown
    now,               \* performance.now() of the last iteration
    phys,              \* the position on the physical board
    nScans,            \* iterations run so far
    nPhys,             \* moves made on the physical board so far
    streak,            \* the notation that has been the positive best move
                       \* in every scan since streak.since
    sinceGreedy,       \* notations committed greedily with no commit of a
                       \* different notation since
    ev                 \* what the last step did

(***************************************************************************)
(* State of the play page around the loop: the pending engine move, the    *)
(* executor and the PlaySidebar component.                                 *)
(***************************************************************************)
VARIABLES
    stockfishMoveRef,     \* stockfishMoveRef.current
    pieceBaseBuffer,      \* the buffer of the loop's closure
    pieceBaseBuffers,     \* the Map of the executor: move key -> buffer
    runs,                 \* the calls of executeRobotMove, in call order
    bridge,               \* <<run, command>> of every ws.send, in send order
    awaiting,             \* runs a handleExecuteRobotMove is awaiting
    playerColor,          \* the colour of the human player
    isStockfishThinking,  \* applyStockfishMove is awaiting the engine
    thinkingGame,         \* currentGame of that applyStockfishMove
    executingMove,        \* React state of PlaySidebar
    autoMode,
    lastExecutedMove,
    rendered,             \* what the last render of PlaySidebar showed
    effectDeps,           \* dependencies of the auto mode effect at that render
    obs,                  \* move key -> source coordinates observed for it
                          \* since it was installed in a buffer
    further,              \* source observations of the pending move since it
                          \* was set or the buffer was cleared (up to 5)
    nOps,                 \* user actions and direct executor calls so far
    rev                   \* what the last step did to the executor side

(***************************************************************************)
(* One frame of the detector and what the square assignment made of it.    *)
(***************************************************************************)
VARIABLES
    detection             \* the boxes and scores of a frame, the calibrated
                          \* boundary, and the squares and update computed

VARIABLES
    sched                 \* the frame requests of findPieces: requestId of the
                          \* closure, the requests the browser holds, the
                          \* iterations suspended in await detect, and whether
                          \* the cleanup function has been called

VARIABLES
    engine                \* the StockfishEngine instance: isReady, the caller
                          \* resolveReady resolves (0: null), its timers, and
                          \* the calls of getBestMove in call order

VARIABLES
    delayed               \* the 500 ms timers of handleColorSelect, each with
                          \* the isStockfishThinking of the applyStockfishMove
                          \* it captured, and the positions of the getBestMove
                          \* calls of the page that have not resolved

VARIABLES
    ctl                   \* RobotControl: the WebSocket objects it created and
                          \* their readyState, wsRef.current (0: null),
                          \* reconnectAttemptRef.current, the reconnect timers
                          \* pending, Date.now(), and the calls of
                          \* sendBridgeCommand in call order

bvars == <<ctl>>

xvars == <<detection, sched, engine, delayed, bvars>>

maxReconnectAttempts == 3

\* the promise executor of sendBridgeCommand on an open socket
NewRequest_NoTimer(c, command, timeout) ==
    [type |-> command, timeout |-> timeout, openAtCall |-> TRUE,
     id |-> c.clock, sock |-> c.wsRef, status |-> "pending", reason |-> "none",
     timer |-> FALSE, listening |-> TRUE, by |-> -1]

NewRequest(c, command, timeout) ==
    [type |-> command, timeout |-> timeout, openAtCall |-> TRUE,
     id |-> c.clock, sock |-> c.wsRef, status |-> "pending", reason |-> "none",
     timer |-> TRUE, listening |-> TRUE, by |-> -1]

\* the promise executor of sendBridgeCommand without an open socket
Refused(command, timeout) ==
    [type |-> command, timeout |-> timeout, openAtCall |-> FALSE,
     id |-> 0, sock |-> 0, status |-> "rejected", reason |-> "not connected",
     timer |-> FALSE, listening |-> FALSE, by |-> -1]

\* data.id === messageId || !data.id
Accepts(request, dataId) == dataId = request.id \/ dataId = 0

\* handleMessage of a request, for a message with data.id = dataId that
\* answers call j (0: a message nobody asked for) on socket k; the listener is
\* removed from wsRef.current, and resolving a settled promise does nothing
handleMessage(c, request, k, dataId, j) ==
    IF request.listening /\ request.sock = k /\ Accepts(request, dataId)
    THEN [request EXCEPT
             !.listening = (c.wsRef # k),
             !.timer = FALSE,
             !.status = IF @ = "pending" THEN "resolved" ELSE @,
             !.by = IF request.status = "pending" THEN j ELSE @]
    ELSE request

\* the mounted component: connectWebSocket has run once
NoCtl == [mounted |-> TRUE, sockets |-> <<"connecting">>, wsRef |-> 1,
          reconnectAttempt |-> 0, timers |-> 0, sinceOpen |-> 0, clock |-> 1,
          requests |-> <<>>]

NoDelayed == [closures |-> <<>>, requests |-> <<>>]

NoEngine == [isReady |-> FALSE, resolveReady |-> 0, initTimer |-> TRUE,
             readyok |-> FALSE, calls |-> <<>>]

\* getBestMove past its await: the handler is registered, the commands are
\* sent and the fallback timer runs
Asked == [phase |-> "asked", readyTimer |-> FALSE, moveTimer |-> TRUE,
          result |-> "none"]

\* resolveReady(value): the promise of the caller it holds is resolved, and
\* that getBestMove goes on; resolving a promise again does nothing
CallResolveReady(e) ==
    IF e.resolveReady = 0 THEN e
    ELSE [e EXCEPT !.calls[e.resolveReady].phase =
                      IF @ = "waiting" THEN "asked" ELSE @,
                   !.calls[e.resolveReady].moveTimer =
                      IF e.calls[e.resolveReady].phase = "waiting" THEN TRUE ELSE @]

NoSched == [requestId |-> 1, nextId |-> 2, pending |-> {1}, awaiting |-> 0,
            cleaned |-> FALSE]

\* requestId = requestAnimationFrame(loop)
requestAnimationFrame_Twice(s) ==
    [s EXCEPT !.requestId = s.nextId + 1, !.nextId = s.nextId + 2,
              !.pending = @ \cup {s.nextId, s.nextId + 1}]

requestAnimationFrame(s) ==
    [s EXCEPT !.requestId = s.nextId, !.nextId = s.nextId + 1,
              !.pending = @ \cup {s.nextId}]

\* the centroid of square s; the squares lie in a row, 6 apart
Centers == [s \in Squares |-> <<6 * s + 3, 3>>]

\* the board seen from above, and seen in perspective
Boundaries ==
    { << <<0, 0>>, <<0, 6>>, <<6 * NSq, 6>>, <<6 * NSq, 0>> >>,
      << <<0, 0>>, <<2, 6>>, <<6 * NSq - 2, 6>>, <<6 * NSq, 0>> >> }

NoDetection ==
    [boxes |-> <<>>, scores |-> <<>>,
     boundary |-> << <<0, 0>>, <<0, 6>>, <<6 * NSq, 6>>, <<6 * NSq, 0>> >>,
     assigned |-> FALSE, boxCenters |-> <<>>, squares |-> <<>>, update |-> zeros]

rvars == <<stockfishMoveRef, pieceBaseBuffer, pieceBaseBuffers, runs, bridge,
           awaiting, playerColor, isStockfishThinking, thinkingGame,
           executingMove, autoMode, lastExecutedMove, rendered, effectDeps,
           obs, further, nOps, rev>>

NoObs == [k \in {} |-> <<>>]

NoREvent ==
    [kind |-> "none", refused |-> FALSE, started |-> 0, ready |-> FALSE,
     key |-> NO_LAN, ret |-> [ready |-> FALSE, sourceAvg |-> NO_COORD,
                             capturedAvg |-> NO_COORD]]

\* the variables of the loop but ev
lvars == <<mode, centersNull, state, possibleMoves, greedyMoveToTime, boardRef,
           movesPairsRef, lastMoveRef, game, pc, now, phys, nScans, nPhys,
           streak, sinceGreedy>>

vars == <<mode, centersNull, state, possibleMoves, greedyMoveToTime, boardRef,
          movesPairsRef, lastMoveRef, game, pc, now, phys, nScans, nPhys,
          streak, sinceGreedy, ev, stockfishMoveRef, pieceBaseBuffer,
          pieceBaseBuffers, runs, bridge, awaiting, playerColor,
          isStockfishThinking, thinkingGame, executingMove, autoMode,
          lastExecutedMove, rendered, effectDeps, obs, further, nOps, rev,
          xvars>>

NoStreak == [san |-> NO_SAN, since |-> 0]

NoEvent ==
    [kind |-> "none", restarted |-> FALSE,
     bestScore1 |-> NEGATIVE_INFINITY, bestScore2 |-> NEGATIVE_INFINITY,
     bestJointScore |-> NEGATIVE_INFINITY,
     bestMove |-> NoData, bestMoves |-> NoData,
     processed |-> {}, pairs |-> <<>>, board |-> InitBoard, lastMove |-> NO_LAN,
     hasMove |-> FALSE, greedyEntered |-> FALSE, hasGreedyMove |-> FALSE,
     firstSeen |-> 0, endTime |-> 0, threw |-> FALSE,
     boardMoves |-> 0, dispatches |-> 0, greedy |-> FALSE]

\* the update matrix of a frame: every piece of the physical board is
\* reported on its square with confidence 0.9, or nothing is reported
Detect(position, frame) ==
    [s \in Squares |-> [c \in Classes |->
        IF frame = "seen" /\ position.pos[s] = c THEN (9 * Scale) \div 10 ELSE 0]]

\* every box of a frame is assigned to the square of its piece: the squares
\* with a detection, each with the piece base coordinate coord
BasesOf(update, coord) ==
    [s \in {q \in Squares : \E c \in Classes : update[q][c] > 0} |-> coord]

ORIGIN == <<0, 0>>

InitRobot ==
    /\ stockfishMoveRef = NoMove
    /\ pieceBaseBuffer = NoPieceBaseBuffer
    /\ pieceBaseBuffers = NoBuffers
    /\ runs = <<>>
    /\ bridge = <<>>
    /\ awaiting = {}
    /\ isStockfishThinking = FALSE
    /\ thinkingGame = InitBoard
    /\ executingMove = FALSE
    /\ autoMode = FALSE
    /\ lastExecutedMove = NO_LAN
    /\ rendered = [executingMove |-> FALSE, ready |-> FALSE]
    /\ effectDeps = EffectDeps(NoMove, FALSE, NO_LAN)
    /\ obs = NoObs
    /\ further = 0
    /\ nOps = 0
    /\ rev = NoREvent

InitBase ==
    /\ mode \in {"play", "record"}
    /\ playerColor = 0
    /\ InitRobot
    /\ centersNull = TRUE
    /\ state = zeros
    /\ possibleMoves = {}
    /\ greedyMoveToTime = EmptyTimers
    /\ boardRef = InitBoard
    /\ movesPairsRef = [current |-> getMovesPairs(InitBoard)]
    /\ lastMoveRef = NO_LAN
    /\ game = makeUpdatePayload(InitBoard, InitBoard, NO_LAN, FALSE)
    /\ pc = "loop"
    /\ now = 0
    /\ phys = InitBoard
    /\ nScans = 0
    /\ nPhys = 0
    /\ streak = NoStreak
    /\ sinceGreedy = {}
    /\ ev = NoEvent
    /\ sched = NoSched
    /\ engine = NoEngine
    /\ delayed = NoDelayed
    /\ ctl = NoCtl

Init == InitBase /\ detection = NoDetection

(***************************************************************************)
(* One iteration of loop on a frame that cannot be processed: playing is   *)
(* off or the video is invalid.                                            *)
(***************************************************************************)
LoopSkip(dt) ==
    /\ pc = "loop"
    /\ nScans' = nScans + 1
    /\ now' = now + dt
    /\ centersNull' = TRUE
    /\ streak' = NoStreak
    /\ ev' = [NoEvent EXCEPT !.kind = "skip", !.endTime = now + dt]
    /\ UNCHANGED <<bvars, detection, engine, delayed, mode, state, possibleMoves, greedyMoveToTime, boardRef,
                   movesPairsRef, lastMoveRef, game, pc, phys, nPhys,
                   sinceGreedy>>
    /\ rev' = [NoREvent EXCEPT !.kind = "skip"]
    /\ UNCHANGED <<stockfishMoveRef, pieceBaseBuffer, pieceBaseBuffers, runs,
                   bridge, awaiting, playerColor, isStockfishThinking,
                   thinkingGame, executingMove, autoMode, lastExecutedMove,
                   rendered, effectDeps, obs, further, nOps>>

\* what the iteration tracks with: the closure's variables, or their fresh
\* values when the centers have to be computed again
Restart_Keep(restart, st, pm, timers) ==
    [state |-> st, possibleMoves |-> pm, greedyMoveToTime |-> timers]

Restart(restart, st, pm, timers) ==
    IF restart
    THEN [state |-> zeros, possibleMoves |-> {}, greedyMoveToTime |-> EmptyTimers]
    ELSE [state |-> st, possibleMoves |-> pm, greedyMoveToTime |-> timers]

(***************************************************************************)
(* One iteration of loop on a valid frame: restart if needed, detect,      *)
(* update the belief state, processState, the two commit paths, dispatch.  *)
(***************************************************************************)
LoopScan(dt, update, squareToPieceBase) ==
    /\ pc = "loop"
    /\ \E endTime \in {now + dt} :
       \E tracked \in {Restart(centersNull, state, possibleMoves, greedyMoveToTime)} :
       \E state1 \in {updateState(tracked.state, update)} :
       \E r \in {processState(state1, movesPairsRef.current, tracked.possibleMoves)} :
       \E timers0 \in {tracked.greedyMoveToTime} :
       \E hasMove \in {ConfirmedPairFires(r, mode)} :
       \E pairSan \in {PrimarySan(r.bestMoves)}, move \in {PrimarySan(r.bestMove)} :
       \E pairThrows \in {hasMove /\ ~CanMove(boardRef, pairSan)} :
       \E paired \in {hasMove /\ ~pairThrows} :
       \E board1 \in {IF paired THEN BoardMove(boardRef, pairSan) ELSE boardRef} :
       \E entered \in {~pairThrows /\ GreedyEntered(r, hasMove)} :
       \E timers2 \in {IF entered
                       THEN RecordFirstSeen(IF paired THEN EmptyTimers ELSE timers0,
                                            move, endTime)
                       ELSE IF paired THEN EmptyTimers ELSE timers0} :
       \E lanThrows \in {entered /\ ~CanMove(board1, move)} :
       \E hasGreedyMove \in {/\ entered
                             /\ ~lanThrows
                             /\ secondElapsed(timers2, move, endTime)
                             /\ newMove(board1, move, lastMoveRef)} :
       \E board2 \in {IF hasGreedyMove THEN BoardMove(board1, move) ELSE board1} :
       \E threw \in {pairThrows \/ lanThrows} :
       \E dispatched \in {~threw /\ Dispatches(paired, hasGreedyMove)} :
       \E collected \in {IF threw
                          THEN [ref |-> stockfishMoveRef, buffer |-> pieceBaseBuffer]
                          ELSE collectPieceBase(stockfishMoveRef, pieceBaseBuffer,
                                                squareToPieceBase)} :
       \E observed \in {/\ ~threw
                         /\ stockfishMoveRef.uciMove # NO_LAN
                         /\ BaseAt(squareToPieceBase,
                                   LanFrom(stockfishMoveRef.uciMove)) # NO_COORD} :
           /\ state' = state1
           /\ possibleMoves' = IF paired THEN {} ELSE r.possibleMoves
           /\ greedyMoveToTime' = IF hasGreedyMove THEN TimersAfterGreedy(timers2, move)
                                  ELSE timers2
           /\ boardRef' = board2
           /\ game' = IF dispatched
                      THEN makeUpdatePayload(boardRef, board2,
                               sanToLan(boardRef, IF hasGreedyMove THEN move ELSE pairSan),
                               PayloadGreedy(mode, hasGreedyMove))
                      ELSE game
           /\ pc' = IF threw THEN "dead" ELSE IF dispatched THEN "sync" ELSE "loop"
           /\ streak' = IF IsNull(r.bestMove) \/ r.bestScore1 <= 0 THEN NoStreak
                        ELSE IF ~centersNull /\ streak.san = move THEN streak
                        ELSE [san |-> move, since |-> endTime]
           /\ sinceGreedy' =
                  IF hasGreedyMove THEN (sinceGreedy \cap {move}) \cup {move}
                  ELSE IF paired THEN sinceGreedy \cap {pairSan}
                  ELSE sinceGreedy
           /\ ev' = [kind |-> "scan", restarted |-> centersNull,
                     bestScore1 |-> r.bestScore1, bestScore2 |-> r.bestScore2,
                     bestJointScore |-> r.bestJointScore,
                     bestMove |-> r.bestMove, bestMoves |-> r.bestMoves,
                     processed |-> r.possibleMoves, pairs |-> movesPairsRef.current,
                     board |-> boardRef, lastMove |-> lastMoveRef,
                     hasMove |-> paired,
                     greedyEntered |-> entered,
                     hasGreedyMove |-> hasGreedyMove,
                     firstSeen |-> IF entered THEN timers2[move] ELSE 0,
                     endTime |-> endTime, threw |-> threw,
                     boardMoves |-> (IF paired THEN 1 ELSE 0)
                                    + (IF hasGreedyMove THEN 1 ELSE 0),
                     dispatches |-> IF dispatched THEN 1 ELSE 0,
                     greedy |-> dispatched /\ PayloadGreedy(mode, hasGreedyMove)]
           /\ stockfishMoveRef' = collected.ref
           /\ pieceBaseBuffer' = collected.buffer
           /\ obs' = IF ~observed THEN obs
                     ELSE (stockfishMoveRef.uciMove :>
                             LET seen == IF pieceBaseBuffer.moveKey = stockfishMoveRef.uciMove
                                            /\ stockfishMoveRef.uciMove \in DOMAIN obs
                                         THEN obs[stockfishMoveRef.uciMove] ELSE <<>>
                             IN  IF Len(seen) > FRAMES_TO_AVERAGE THEN seen
                                 ELSE Append(seen,
                                             BaseAt(squareToPieceBase,
                                                    LanFrom(stockfishMoveRef.uciMove))))
           /\ further' = IF observed /\ further < FRAMES_TO_AVERAGE
                         THEN further + 1 ELSE further
           /\ rev' = [NoREvent EXCEPT
                         !.kind = "scan",
                         !.key = stockfishMoveRef.uciMove,
                         !.ready = collected.ref.readyForExecution
                                   /\ ~stockfishMoveRef.readyForExecution]
    /\ nScans' = nScans + 1
    /\ now' = now + dt
    /\ centersNull' = FALSE
    /\ UNCHANGED <<bvars, detection, engine, delayed, mode, movesPairsRef, lastMoveRef, phys, nPhys>>
    /\ UNCHANGED <<pieceBaseBuffers, runs, bridge, awaiting, playerColor,
                   isStockfishThinking, thinkingGame, executingMove, autoMode,
                   lastExecutedMove, rendered, effectDeps, nOps>>

(***************************************************************************)
(* The store round trip after a dispatch: the page rebuilds the board from *)
(* the game, takes a greedy move back, and refreshes the three refs.       *)
(***************************************************************************)
SyncRefs ==
    /\ pc = "sync"
    /\ LET board == IF game.greedy THEN game.before ELSE game.after
       IN  /\ boardRef' = board
           /\ movesPairsRef' = [current |-> getMovesPairs(board)]
           /\ lastMoveRef' = game.lastMove
    /\ pc' = "loop"
    /\ ev' = [NoEvent EXCEPT !.kind = "sync", !.endTime = now]
    /\ UNCHANGED <<xvars, mode, centersNull, state, possibleMoves, greedyMoveToTime,
                   game, now, phys, nScans, nPhys, streak, sinceGreedy>>
    /\ rev' = [NoREvent EXCEPT !.kind = "sync"]
    /\ UNCHANGED <<stockfishMoveRef, pieceBaseBuffer, pieceBaseBuffers, runs,
                   bridge, awaiting, playerColor, isStockfishThinking,
                   thinkingGame, executingMove, autoMode, lastExecutedMove,
                   rendered, effectDeps, obs, further, nOps>>

(***************************************************************************)
(* A player moves a piece on the physical board.                           *)
(***************************************************************************)
PhysMove(l) ==
    /\ nPhys < MaxPhysMoves
    /\ l \in LegalLans(phys)
    /\ phys' = ApplyLan(phys, l)
    /\ nPhys' = nPhys + 1
    /\ ev' = [NoEvent EXCEPT !.kind = "phys", !.endTime = now]
    /\ UNCHANGED <<xvars, mode, centersNull, state, possibleMoves, greedyMoveToTime,
                   boardRef, movesPairsRef, lastMoveRef, game, pc, now, nScans,
                   streak, sinceGreedy>>
    /\ rev' = [NoREvent EXCEPT !.kind = "phys"]
    /\ UNCHANGED <<stockfishMoveRef, pieceBaseBuffer, pieceBaseBuffers, runs,
                   bridge, awaiting, playerColor, isStockfishThinking,
                   thinkingGame, executingMove, autoMode, lastExecutedMove,
                   rendered, effectDeps, obs, further, nOps>>

Next ==
    \/ \E dt \in Deltas : nScans < MaxScans /\ LoopSkip(dt) /\ UNCHANGED sched
    \/ \E dt \in Deltas, frame \in Frames :
          nScans < MaxScans
          /\ LoopScan(dt, Detect(phys, frame), BasesOf(Detect(phys, frame), ORIGIN)) /\ UNCHANGED sched
    \/ SyncRefs
    \/ \E l \in 1 .. (NSq * NSq) : PhysMove(l)

Spec == Init /\ [][Next]_vars

(***************************************************************************)
(* The same loop on free frames: instead of reporting the physical board,  *)
(* the detector may report any of FrameLevels in each of the drawn cells   *)
(* (pieces seen on two squares at once, missed pieces).  Runs are short,   *)
(* the frames are 600 ms apart, and the mode is one with pair commits.     *)
(***************************************************************************)
FrameLevels == {0, 800}

\* the cells that are drawn, as <<square, class>>: the white piece on the
\* square it may move to, the black piece on the two squares it may move to
\* or capture on; all other cells of a frame are 0
DrawnCells == {<<1, 0>>, <<0, 1>>, <<1, 1>>}

Embed(f) ==
    [s \in Squares |-> [c \in Classes |->
        IF <<s, c>> \in DrawnCells THEN f[<<s, c>>] ELSE 0]]

NextFrames ==
    \/ \E f \in [DrawnCells -> FrameLevels] :
          nScans < MaxFrames /\ LoopScan(600, Embed(f), BasesOf(Embed(f), ORIGIN)) /\ UNCHANGED sched
    \/ SyncRefs

InitFrames == Init /\ mode = "record"

SpecFrames == InitFrames /\ [][NextFrames]_vars

(***************************************************************************)
(* The loop on the frames of the physical board in record mode, explored   *)
(* over fewer iterations.                                                  *)
(***************************************************************************)
NextUpdate ==
    \/ \E dt \in Deltas : nScans < MaxUpdates /\ LoopSkip(dt) /\ UNCHANGED sched
    \/ \E dt \in Deltas, frame \in Frames :
          nScans < MaxUpdates
          /\ LoopScan(dt, Detect(phys, frame), BasesOf(Detect(phys, frame), ORIGIN)) /\ UNCHANGED sched
    \/ SyncRefs
    \/ \E l \in 1 .. (NSq * NSq) : PhysMove(l)

SpecUpdate == InitFrames /\ [][NextUpdate]_vars

(***************************************************************************)
(* The executor called directly: addToPieceBaseBuffer, clearPieceBaseBuffer*)
(* and executeRobotMove with the events of its sockets and timers.         *)
(***************************************************************************)
AddObservation(moveKey, sourcePieceBase, capturedPieceBase) ==
    /\ \E res \in {addToPieceBaseBuffer(pieceBaseBuffers, moveKey,
                                        sourcePieceBase, capturedPieceBase)} :
          /\ pieceBaseBuffers' = res.buffers
          /\ rev' = [NoREvent EXCEPT !.kind = "add", !.key = moveKey,
                        !.ret = [ready |-> res.ready, sourceAvg |-> res.sourceAvg,
                                 capturedAvg |-> res.capturedAvg]]
          /\ obs' = SetKey(obs, moveKey,
                           Append(IF moveKey \in DOMAIN obs THEN obs[moveKey] ELSE <<>>,
                                  sourcePieceBase))
    /\ nOps' = nOps + 1
    /\ UNCHANGED <<xvars, lvars, ev>>
    /\ UNCHANGED <<stockfishMoveRef, pieceBaseBuffer, runs, bridge, awaiting,
                   playerColor, isStockfishThinking, thinkingGame, executingMove,
                   autoMode, lastExecutedMove, rendered, effectDeps, further>>

ClearObservations(moveKey) ==
    /\ pieceBaseBuffers' = clearPieceBaseBuffer(pieceBaseBuffers, moveKey)
    /\ rev' = [NoREvent EXCEPT !.kind = "clear", !.key = moveKey]
    /\ obs' = DeleteKey(obs, moveKey)
    /\ nOps' = nOps + 1
    /\ UNCHANGED <<xvars, lvars, ev>>
    /\ UNCHANGED <<stockfishMoveRef, pieceBaseBuffer, runs, bridge, awaiting,
                   playerColor, isStockfishThinking, thinkingGame, executingMove,
                   autoMode, lastExecutedMove, rendered, effectDeps, further>>

\* a step of the executor that touches one run and, maybe, the bridge
RunStep(r, run, sent) ==
    /\ runs' = [runs EXCEPT ![r] = KeepLive(run)]
    /\ bridge' = IF sent = 0 THEN bridge ELSE Append(bridge, <<r, sent>>)
    /\ rev' = [NoREvent EXCEPT !.kind = "run"]
    /\ UNCHANGED <<xvars, lvars, ev>>
    /\ UNCHANGED <<stockfishMoveRef, pieceBaseBuffer, pieceBaseBuffers, awaiting,
                   playerColor, isStockfishThinking, thinkingGame, executingMove,
                   autoMode, lastExecutedMove, rendered, effectDeps, obs,
                   further, nOps>>

\* executeRobotMove(moveData) is called by a test or a script
executeRobotMove(moveData, posesAvailable, created) ==
    /\ runs' = Append(runs, StartRun(moveData, posesAvailable, created))
    /\ rev' = [NoREvent EXCEPT !.kind = "execute", !.started = Len(runs) + 1]
    /\ UNCHANGED ev
    /\ nOps' = nOps + 1
    /\ UNCHANGED <<xvars, lvars>>
    /\ UNCHANGED <<stockfishMoveRef, pieceBaseBuffer, pieceBaseBuffers, bridge,
                   awaiting, playerColor, isStockfishThinking, thinkingGame,
                   executingMove, autoMode, lastExecutedMove, rendered,
                   effectDeps, obs, further>>

\* ws.onopen of the socket of command i: the command is sent and the 500 ms
\* timer is set
WsOpen(r, i) ==
    /\ r \in DOMAIN runs /\ i \in DOMAIN runs[r].sockets
    /\ runs[r].sockets[i].ws = "connecting"
    /\ RunStep(r,
               [runs[r] EXCEPT !.sockets[i].ws = "open", !.sockets[i].t500 = TRUE],
               i)

\* the 500 ms timer of onopen: close and resolve
Timer500(r, i) ==
    /\ r \in DOMAIN runs /\ i \in DOMAIN runs[r].sockets
    /\ runs[r].sockets[i].t500
    /\ RunStep(r,
               ResolvePromise([runs[r] EXCEPT !.sockets[i].ws = "closed",
                                       !.sockets[i].t500 = FALSE], i),
               0)

\* the 1000 ms timer of a socket that did open: close if open, resolve
Timer1000(r, i) ==
    /\ r \in DOMAIN runs /\ i \in DOMAIN runs[r].sockets
    /\ runs[r].sockets[i].t1000
    /\ runs[r].sockets[i].ws # "connecting"
    /\ RunStep(r,
               ResolvePromise([runs[r] EXCEPT !.sockets[i].ws = "closed",
                                       !.sockets[i].t1000 = FALSE], i),
               0)

\* the 1000 ms timer of a socket that is still connecting: resolve anyway
Timeout(r, i) ==
    /\ r \in DOMAIN runs /\ i \in DOMAIN runs[r].sockets
    /\ runs[r].sockets[i].t1000
    /\ runs[r].sockets[i].ws = "connecting"
    /\ RunStep(r,
               [ResolvePromise([runs[r] EXCEPT !.sockets[i].t1000 = FALSE], i)
                   EXCEPT !.timedOut = @ \cup {i}],
               0)

\* ws.onerror of the socket of command i
WsError(r, i) ==
    /\ r \in DOMAIN runs /\ i \in DOMAIN runs[r].sockets
    /\ runs[r].sockets[i].ws \in {"connecting", "open"}
    /\ RunStep(r,
               [RejectPromise([runs[r] EXCEPT !.sockets[i].ws = "closed"], i)
                   EXCEPT !.errored = @ \cup {i}],
               0)

\* the delay of executeCommand has elapsed: the next command, or the end
DelayElapsed(r, created) ==
    /\ r \in DOMAIN runs
    /\ runs[r].phase = "delay"
    /\ RunStep(r,
               IF Len(runs[r].issued) = Len(CommandsOf(runs[r].moveData))
               THEN [runs[r] EXCEPT !.phase = "resolved"]
               ELSE Issue(runs[r], created),
               0)

(***************************************************************************)
(* PlaySidebar: rendering and the auto mode effect, the buttons, the       *)
(* engine.  The page is playing and the engine has been loaded.            *)
(***************************************************************************)
\* handleExecuteRobotMove up to its await
handleExecuteRobotMove(posesAvailable, created) ==
    IF ~Ready(stockfishMoveRef)
    THEN /\ rev' = [NoREvent EXCEPT !.kind = "execute", !.refused = TRUE]
         /\ UNCHANGED <<executingMove, runs, awaiting>>
    ELSE /\ Len(runs) < MaxRuns
         /\ executingMove' = TRUE
         /\ runs' = Append(runs, StartRun(MoveDataOf(stockfishMoveRef),
                                          posesAvailable, created))
         /\ awaiting' = awaiting \cup {Len(runs) + 1}
         /\ rev' = [NoREvent EXCEPT !.kind = "execute", !.started = Len(runs) + 1]

\* PlaySidebar renders with the state auto, lastExecuted; the auto mode
\* effect runs when one of its dependencies has changed
RenderWith(ref, auto, lastExecuted) ==
    /\ rendered' = [executingMove |-> executingMove, ready |-> ref.readyForExecution]
    /\ effectDeps' = EffectDeps(ref, auto, lastExecuted)
    /\ IF EffectDeps(ref, auto, lastExecuted) # effectDeps
          /\ AutoFires(ref, auto, lastExecuted)
       THEN handleExecuteRobotMove(TRUE, TRUE)
       ELSE /\ rev' = [NoREvent EXCEPT !.kind = "render"]
            /\ UNCHANGED <<executingMove, runs, awaiting>>

\* a re-render is scheduled
RenderDue ==
    \/ rendered # [executingMove |-> executingMove,
                   ready |-> stockfishMoveRef.readyForExecution]
    \/ effectDeps # EffectDeps(stockfishMoveRef, autoMode, lastExecutedMove)

\* a re-render
Render ==
    /\ mode = "play"
    /\ RenderDue
    /\ RenderWith(stockfishMoveRef, autoMode, lastExecutedMove)
    /\ UNCHANGED <<xvars, lvars, ev>>
    /\ UNCHANGED <<stockfishMoveRef, pieceBaseBuffer, pieceBaseBuffers, bridge,
                   playerColor, isStockfishThinking, thinkingGame, autoMode,
                   lastExecutedMove, obs, further, nOps>>

\* the render that a state change schedules is committed before the next
\* user event is handled
Committed == rendered.executingMove = executingMove

\* the Execute Robot Move button is shown and enabled, and clicked
ClickExecute ==
    /\ mode = "play"
    /\ Committed
    /\ ~autoMode
    /\ ~rendered.executingMove
    /\ rendered.ready
    /\ handleExecuteRobotMove(TRUE, TRUE)
    /\ rendered' = [executingMove |-> executingMove',
                    ready |-> stockfishMoveRef.readyForExecution]
    /\ effectDeps' = EffectDeps(stockfishMoveRef, autoMode, lastExecutedMove)
    /\ nOps' = nOps + 1
    /\ UNCHANGED <<xvars, lvars, ev>>
    /\ UNCHANGED <<stockfishMoveRef, pieceBaseBuffer, pieceBaseBuffers, bridge,
                   playerColor, isStockfishThinking, thinkingGame, autoMode,
                   lastExecutedMove, obs, further>>

\* the Auto Execute switch
ToggleAuto ==
    /\ mode = "play"
    /\ Committed
    /\ ~rendered.executingMove
    /\ autoMode' = ~autoMode
    /\ RenderWith(stockfishMoveRef, ~autoMode, lastExecutedMove)
    /\ nOps' = nOps + 1
    /\ UNCHANGED <<xvars, lvars, ev>>
    /\ UNCHANGED <<stockfishMoveRef, pieceBaseBuffer, pieceBaseBuffers, bridge,
                   playerColor, isStockfishThinking, thinkingGame,
                   lastExecutedMove, obs, further>>

\* the Clear Buffer button
ClickClear ==
    /\ mode = "play"
    /\ Committed
    /\ ~rendered.executingMove
    /\ stockfishMoveRef.uciMove # NO_LAN
    /\ pieceBaseBuffers' = clearPieceBaseBuffer(pieceBaseBuffers, stockfishMoveRef.uciMove)
    /\ stockfishMoveRef' = [stockfishMoveRef EXCEPT !.readyForExecution = FALSE]
    /\ RenderWith([stockfishMoveRef EXCEPT !.readyForExecution = FALSE],
                  autoMode, lastExecutedMove)
    /\ further' = 0
    /\ nOps' = nOps + 1
    /\ UNCHANGED <<xvars, lvars, ev>>
    /\ UNCHANGED <<pieceBaseBuffer, bridge, playerColor, isStockfishThinking,
                   thinkingGame, autoMode, lastExecutedMove, obs>>

\* the Reset Game button
resetGame ==
    /\ mode = "play"
    /\ Committed
    /\ ~rendered.executingMove
    /\ game' = makeUpdatePayload(InitBoard, InitBoard, NO_LAN, FALSE)
    /\ pc' = IF pc = "dead" THEN "dead" ELSE "sync"
    /\ stockfishMoveRef' = NoMove
    /\ lastExecutedMove' = NO_LAN
    /\ RenderWith(NoMove, autoMode, NO_LAN)
    /\ further' = 0
    /\ nOps' = nOps + 1
    /\ UNCHANGED ev
    /\ UNCHANGED <<xvars, mode, centersNull, state, possibleMoves, greedyMoveToTime,
                   boardRef, movesPairsRef, lastMoveRef, now, phys, nScans,
                   nPhys, streak, sinceGreedy>>
    /\ UNCHANGED <<pieceBaseBuffer, pieceBaseBuffers, bridge, playerColor,
                   isStockfishThinking, thinkingGame, autoMode, obs>>

\* handleExecuteRobotMove after its await: then, catch and finally
HandleSettled(r) ==
    /\ r \in awaiting
    /\ Settled(runs[r])
    /\ awaiting' = awaiting \ {r}
    /\ lastExecutedMove' = IF runs[r].phase = "resolved"
                           THEN runs[r].moveData.uciMove ELSE lastExecutedMove
    /\ executingMove' = FALSE
    /\ rev' = [NoREvent EXCEPT !.kind = "settled", !.started = r]
    /\ UNCHANGED <<xvars, lvars, ev>>
    /\ UNCHANGED <<stockfishMoveRef, pieceBaseBuffer, pieceBaseBuffers, runs,
                   bridge, playerColor, isStockfishThinking, thinkingGame,
                   autoMode, rendered, effectDeps, obs, further, nOps>>

\* applyStockfishMove up to its await: it is the engine's turn
EngineStart ==
    /\ mode = "play"
    /\ ~isStockfishThinking
    /\ game.after.turn # playerColor
    /\ isStockfishThinking' = TRUE
    /\ thinkingGame' = game.after
    /\ rev' = [NoREvent EXCEPT !.kind = "think"]
    /\ UNCHANGED <<xvars, lvars, ev>>
    /\ UNCHANGED <<stockfishMoveRef, pieceBaseBuffer, pieceBaseBuffers, runs,
                   bridge, awaiting, playerColor, executingMove, autoMode,
                   lastExecutedMove, rendered, effectDeps, obs, further, nOps>>

\* applyStockfishMove after its await: the engine answers with the move l
EngineDone(l) ==
    /\ isStockfishThinking
    /\ l \in LegalLans(thinkingGame)
    /\ stockfishMoveRef' = EngineMoveOf(thinkingGame, l)
    /\ IF game.after = thinkingGame
       THEN /\ game' = makeUpdatePayload(thinkingGame, ApplyLan(thinkingGame, l), l, FALSE)
            /\ pc' = IF pc = "dead" THEN "dead" ELSE "sync"
       ELSE UNCHANGED <<game, pc>>
    /\ isStockfishThinking' = FALSE
    /\ further' = 0
    /\ rev' = [NoREvent EXCEPT !.kind = "engine", !.key = l]
    /\ UNCHANGED ev
    /\ UNCHANGED <<xvars, mode, centersNull, state, possibleMoves, greedyMoveToTime,
                   boardRef, movesPairsRef, lastMoveRef, now, phys, nScans,
                   nPhys, streak, sinceGreedy>>
    /\ UNCHANGED <<pieceBaseBuffer, pieceBaseBuffers, runs, bridge, awaiting,
                   playerColor, thinkingGame, executingMove, autoMode,
                   lastExecutedMove, rendered, effectDeps, obs, nOps>>

\* the engine has no move
EngineNoMove ==
    /\ isStockfishThinking
    /\ LegalLans(thinkingGame) = {}
    /\ isStockfishThinking' = FALSE
    /\ rev' = [NoREvent EXCEPT !.kind = "engine"]
    /\ UNCHANGED <<xvars, lvars, ev>>
    /\ UNCHANGED <<stockfishMoveRef, pieceBaseBuffer, pieceBaseBuffers, runs,
                   bridge, awaiting, playerColor, thinkingGame, executingMove,
                   autoMode, lastExecutedMove, rendered, effectDeps, obs,
                   further, nOps>>

RECURSIVE IssueRest(_)
IssueRest(run) ==
    IF Len(run.issued) = Len(CommandsOf(run.moveData)) THEN run
    ELSE IssueRest([run EXCEPT !.issued = Append(@, CommandsOf(run.moveData)[Len(@) + 1])])

RECURSIVE SendRest(_, _, _, _)
SendRest(log, r, i, n) ==
    IF i > n THEN log ELSE SendRest(Append(log, <<r, i>>), r, i + 1, n)

\* the sequence of a run on a bridge that answers in time: for the command
\* waited for and every later one the socket opens, the command is sent,
\* the promise resolves and the delay elapses
ExecuteSequenceDone(r) ==
    /\ r \in DOMAIN runs
    /\ runs[r].phase = "send"
    /\ Len(runs[r].issued) \in DOMAIN runs[r].sockets
    /\ runs[r].sockets[Len(runs[r].issued)].ws = "connecting"
    /\ runs' = [runs EXCEPT ![r] =
                   [IssueRest(runs[r]) EXCEPT !.sockets = NoSockets,
                                               !.phase = "resolved"]]
    /\ bridge' = SendRest(bridge, r, Len(runs[r].issued),
                          Len(CommandsOf(runs[r].moveData)))
    /\ rev' = [NoREvent EXCEPT !.kind = "run"]
    /\ UNCHANGED <<xvars, lvars, ev>>
    /\ UNCHANGED <<stockfishMoveRef, pieceBaseBuffer, pieceBaseBuffers, awaiting,
                   playerColor, isStockfishThinking, thinkingGame, executingMove,
                   autoMode, lastExecutedMove, rendered, effectDeps, obs,
                   further, nOps>>

(***************************************************************************)
(* The executor on its own: observations of two move keys are fed to       *)
(* addToPieceBaseBuffer, the first at any of Coords, the second at ORIGIN  *)
(* together with a captured piece.                                         *)
(***************************************************************************)
Coords == {<<2 * k, 0>> : k \in 0 .. MaxCoord}

NextBuffer ==
    \/ \E c \in Coords : nOps < MaxAdds /\ AddObservation(1, c, NO_COORD)
    \/ nOps < MaxAdds /\ AddObservation(2, ORIGIN, <<1, 1>>)
    \/ \E k \in {1, 2} : nOps < MaxAdds /\ k \in DOMAIN obs /\ ClearObservations(k)

SpecBuffer == Init /\ [][NextBuffer]_vars

(***************************************************************************)
(* One call of executeRobotMove, for a move to an empty square and for a   *)
(* capture, on a bridge that may answer late, not at all, or fail.         *)
(***************************************************************************)
MoveData(from, to, isCapture) ==
    [sourceSquare |-> from, destSquare |-> to,
     sourcePieceBaseCamera |-> NO_COORD, capturedPieceBaseCamera |-> NO_COORD,
     isCapture |-> isCapture, uciMove |-> LanOf(from - 1, to - 1)]

MoveDatas == {MoveData(1, 2, FALSE), MoveData(NSq, 1, TRUE)}

NextExec ==
    \/ \E moveData \in MoveDatas, posesAvailable \in BOOLEAN, created \in BOOLEAN :
          runs = <<>> /\ executeRobotMove(moveData, posesAvailable, created)
    \/ \E r \in DOMAIN runs : \E i \in DOMAIN runs[r].sockets : WsOpen(r, i)
    \/ \E r \in DOMAIN runs : \E i \in DOMAIN runs[r].sockets : Timer1000(r, i)
    \/ \E r \in DOMAIN runs : \E i \in DOMAIN runs[r].sockets : Timer500(r, i)
    \/ \E r \in DOMAIN runs : \E i \in DOMAIN runs[r].sockets :
          Cardinality(runs[r].timedOut) < MaxLate /\ Timeout(r, i)
    \/ \E r \in DOMAIN runs : \E i \in DOMAIN runs[r].sockets : WsError(r, i)
    \/ \E r \in DOMAIN runs, created \in BOOLEAN : DelayElapsed(r, created)

SpecExec == Init /\ [][NextExec]_vars

(***************************************************************************)
(* Calls of executeRobotMove one after the other on a bridge that answers  *)
(* in time, for move data that differ in the fields the page fills in from *)
(* the camera and the engine.                                              *)
(***************************************************************************)
SequenceInputs ==
    MoveDatas \cup
    {[moveData EXCEPT !.sourcePieceBaseCamera = <<2, 4>>,
                      !.capturedPieceBaseCamera = <<4, 2>>,
                      !.uciMove = NO_LAN] : moveData \in MoveDatas}

NextSequence ==
    \/ \E moveData \in SequenceInputs, posesAvailable \in BOOLEAN :
          /\ Len(runs) < MaxRuns
          /\ runs # <<>> => Settled(runs[Len(runs)])
          /\ executeRobotMove(moveData, posesAvailable, TRUE)
    \/ \E r \in DOMAIN runs : \E i \in DOMAIN runs[r].sockets : WsOpen(r, i)
    \/ \E r \in DOMAIN runs : \E i \in DOMAIN runs[r].sockets : Timer500(r, i)
    \/ \E r \in DOMAIN runs : DelayElapsed(r, TRUE)

SpecSequence == InitFrames /\ [][NextSequence]_vars

(***************************************************************************)
(* The play page: the loop on frames of the physical board, the engine,    *)
(* PlaySidebar and the executor on a bridge that answers in time or fails. *)
(* The human plays either colour (the state after handleColorSelect).      *)
(***************************************************************************)
InitPlay ==
    /\ detection = NoDetection
    /\ sched = NoSched
    /\ engine = NoEngine
    /\ delayed = NoDelayed
    /\ ctl = NoCtl
    /\ mode = "play"
    /\ playerColor = 1
    /\ InitRobot
    /\ centersNull = TRUE
    /\ state = zeros
    /\ possibleMoves = {}
    /\ greedyMoveToTime = EmptyTimers
    /\ boardRef = InitBoard
    /\ movesPairsRef = [current |-> getMovesPairs(InitBoard)]
    /\ lastMoveRef = NO_LAN
    /\ game = makeUpdatePayload(InitBoard, InitBoard, NO_LAN, FALSE)
    /\ pc = "loop"
    /\ now = 0
    /\ phys = InitBoard
    /\ nScans = 0
    /\ nPhys = 0
    /\ streak = NoStreak
    /\ sinceGreedy = {}
    /\ ev = NoEvent

\* the engine has been asked, or is about to be asked, for a move
EngineDue ==
    \/ isStockfishThinking
    \/ game.after.turn # playerColor /\ LegalLans(game.after) # {}

\* the page has work of its own to do: effects, renders, the continuation of
\* a settled promise, the engine's answer.  These take milliseconds (the
\* engine is given one second) and are done before the next frame is analysed,
\* a piece is moved by hand or the arm ends its sequence
Busy ==
    \/ pc = "sync"
    \/ RenderDue
    \/ EngineDue
    \/ \E r \in awaiting : Settled(runs[r])

NextPlay ==
    \/ \E c \in PlayCoords :
          nScans < MaxPlayScans /\ ~Busy
          /\ LoopScan(600, Detect(phys, "seen"), BasesOf(Detect(phys, "seen"), c)) /\ UNCHANGED sched
    \/ SyncRefs
    \/ \E l \in 1 .. (NSq * NSq) : ~Busy /\ PhysMove(l)
    \/ EngineStart
    \/ \E l \in 1 .. (NSq * NSq) : EngineDone(l)
    \/ EngineNoMove
    \/ Render
    \/ nOps < MaxOps /\ ClickExecute
    \/ nOps < MaxOps /\ ToggleAuto
    \/ nOps < MaxOps /\ ClickClear
    \/ nOps < MaxOps /\ resetGame
    \/ \E r \in DOMAIN runs : HandleSettled(r)
    \/ \E r \in DOMAIN runs : ~Busy /\ ExecuteSequenceDone(r)
    \/ \E r \in DOMAIN runs : \E i \in DOMAIN runs[r].sockets :
          ~Busy /\ WsError(r, i)

SpecPlay == InitPlay /\ [][NextPlay]_vars

(***************************************************************************)
(* The Execute button on its own: the loop, the engine, a human who moves  *)
(* the pieces and clicks, no auto mode.                                    *)
(***************************************************************************)
NextSidebar ==
    \/ \E c \in PlayCoords :
          nScans < MaxScans /\ ~Busy
          /\ LoopScan(600, Detect(phys, "seen"), BasesOf(Detect(phys, "seen"), c)) /\ UNCHANGED sched
    \/ SyncRefs
    \/ \E l \in 1 .. (NSq * NSq) : ~Busy /\ PhysMove(l)
    \/ EngineStart
    \/ \E l \in 1 .. (NSq * NSq) : EngineDone(l)
    \/ Render
    \/ nOps < MaxOps /\ ClickExecute
    \/ \E r \in DOMAIN runs : HandleSettled(r)
    \/ \E r \in DOMAIN runs : ~Busy /\ ExecuteSequenceDone(r)

SpecSidebar == InitPlay /\ [][NextSidebar]_vars

(***************************************************************************)
(* The collection of the loop on its own: the pieces stay where they are,  *)
(* the piece bases are detected at varying coordinates, the user resets    *)
(* the game or clears the buffer.                                          *)
(***************************************************************************)
CollectCoords == {<<0, 0>>, <<2, 0>>}

NextCollect ==
    \/ \E c \in CollectCoords :
          nScans < MaxScans /\ ~Busy
          /\ LoopScan(600, Detect(phys, "seen"), BasesOf(Detect(phys, "seen"), c)) /\ UNCHANGED sched
    \/ SyncRefs
    \/ EngineStart
    \/ \E l \in 1 .. (NSq * NSq) : EngineDone(l)
    \/ Render
    \/ nOps < MaxOps /\ ClickClear
    \/ nOps < MaxOps /\ resetGame

SpecCollect == InitPlay /\ [][NextCollect]_vars

(***************************************************************************)
(* Properties of the move selection policy.                                *)
(***************************************************************************)
ScanDone == ev.kind = "scan"

GreedySan == PrimarySan(ev.bestMove)

PairSan == PrimarySan(ev.bestMoves)

\* C1: a confirmed-pair commit fires in a scan only if bestMoves is
\* non-null, bestScore2 > 0, bestJointScore > 0 and the primary notation of
\* bestMoves is in possibleMoves; if one of them is false there is no commit.
C1_PairCommitNeedsAll ==
    (ScanDone /\ ev.hasMove) =>
        /\ ~IsNull(ev.bestMoves)
        /\ ev.bestScore2 > 0
        /\ ev.bestJointScore > 0
        /\ PairSan \in ev.processed

C1_Witness ==
    /\ ScanDone /\ ev.hasMove /\ mode = "record"
    /\ boardRef = BoardMove(ev.board, PairSan)

\* C2: a greedy commit of m fires only if at least 1000 ms lie between m's
\* entry in greedyMoveToTime and the scan, and m's long notation on the
\* current board differs from lastMoveRef.
C2_GreedyNeedsDelayAndNewMove ==
    (ScanDone /\ ev.hasGreedyMove) =>
        /\ ev.endTime - ev.firstSeen >= 1000
        /\ ev.firstSeen <= ev.endTime
        /\ sanToLan(ev.board, GreedySan) # ev.lastMove

C2_Witness ==
    /\ ScanDone /\ ev.hasGreedyMove
    /\ ev.lastMove # NO_LAN
    /\ ev.endTime - ev.firstSeen > 1000

\* C3: a greedy commit never fires twice for the same notation unless a
\* different move was committed in between.
C3_NoGreedyRepeat ==
    [][(ev'.kind = "scan" /\ ev'.hasGreedyMove) => PrimarySan(ev'.bestMove) \notin sinceGreedy]_vars

\* the move committed greedily is the best move again, the delay has
\* elapsed again, and it is not committed
C3_Witness ==
    /\ ScanDone /\ ev.greedyEntered /\ ~ev.hasGreedyMove
    /\ GreedySan \in sinceGreedy
    /\ ev.endTime - ev.firstSeen > 1000

\* C4: a greedy commit of m never fires before 1000 ms of continuous
\* observation: m has been the positive best move in every scan of the
\* 1000 ms before the commit.
C4_ContinuousObservation ==
    (ScanDone /\ ev.hasGreedyMove) =>
        /\ streak.san = GreedySan
        /\ ev.endTime - streak.since >= 1000

\* C5 as stated: in play mode the greedy path never applies a move to the
\* board and never causes a gameUpdate dispatch.
C5_NoGreedyInPlay ==
    (ScanDone /\ mode = "play") => (~ev.hasGreedyMove /\ ev.dispatches = 0)

\* C5 as amended: in play mode greedy commits are not suppressed; every move
\* the loop applies to the board and every gameUpdate it dispatches comes
\* from the greedy path, and the dispatched payload is marked non-greedy.
C5_PlayCommitsAreGreedyPath ==
    (ScanDone /\ mode = "play" /\ (ev.boardMoves > 0 \/ ev.dispatches > 0)) =>
        /\ ev.hasGreedyMove
        /\ ev.boardMoves = 1
        /\ ev.dispatches = 1
        /\ ~game.greedy

C5_Witness ==
    /\ ScanDone /\ mode = "play" /\ ev.hasGreedyMove
    /\ boardRef = BoardMove(ev.board, GreedySan)
    /\ pc = "sync"

\* C6: in play mode no confirmed-pair commit ever fires, whatever the
\* scores are, and no commit clears possibleMoves.
C6_NoPairCommitInPlay ==
    [][(mode = "play" /\ ev'.kind = "scan") =>
          /\ ~ev'.hasMove
          /\ ev'.processed \subseteq possibleMoves'
          /\ (~ev'.restarted => possibleMoves \subseteq possibleMoves')]_vars

\* play mode, and the scores are those that commit a pair in the other modes
C6_Witness ==
    /\ ScanDone /\ mode = "play"
    /\ ~IsNull(ev.bestMoves)
    /\ ev.bestScore2 > 0
    /\ ev.bestJointScore > 0
    /\ PairSan \in possibleMoves

\* C7: a gameUpdate dispatched in play mode carries greedy = false; in the
\* other modes the flag is true exactly when the commit of the scan was a
\* greedy commit, and false when it was a confirmed-pair commit.
C7_GreedyFlag ==
    (ScanDone /\ ev.dispatches > 0) =>
        /\ mode = "play" => ~game.greedy
        /\ mode # "play" => (game.greedy <=> ev.hasGreedyMove)
        /\ mode # "play" => (~game.greedy <=> ev.hasMove)

C7_Witness ==
    /\ ScanDone /\ ev.dispatches > 0 /\ mode = "play"
    /\ ev.hasGreedyMove /\ ~game.greedy

\* C8: at most one commit fires in a scan; the greedy path is evaluated only
\* when the confirmed-pair commit did not fire; gameUpdate is dispatched
\* once in a scan with a commit and never in a scan without one.
C8_OneCommitPerScan ==
    ScanDone =>
        /\ ev.boardMoves <= 1
        /\ ~(ev.hasMove /\ ev.greedyEntered)
        /\ ~(ev.hasMove /\ ev.hasGreedyMove)
        /\ ev.dispatches = ev.boardMoves
        /\ ev.boardMoves = 1 <=> (ev.hasMove \/ ev.hasGreedyMove)

\* a pair commits in a scan whose best first move scores positive too
C8_Witness ==
    /\ ScanDone /\ ev.hasMove
    /\ ~IsNull(ev.bestMove) /\ ev.bestScore1 > 0
    /\ ev.boardMoves = 1 /\ ev.dispatches = 1

\* C9: in the scan that commits the joint descriptor of pair P, the score of
\* P's own move2 is strictly positive.
C9_OwnResponseEvidenced ==
    (ScanDone /\ ev.hasMove) =>
        \A i \in 1 .. Len(ev.pairs) :
            ev.pairs[i].moves = ev.bestMoves =>
                calculateScore(state, ev.pairs[i].move2) > 0

\* C10: every first move that scores positive in a scan is added to
\* possibleMoves; what is in the set stays until a confirmed-pair commit or
\* a restart of tracking; a greedy commit leaves the set as it is.
C10_PossibleMovesAccumulate ==
    [][/\ ev'.kind = "scan" =>
            /\ \A i \in 1 .. Len(ev'.pairs) :
                  calculateScore(state', ev'.pairs[i].move1) > 0
                      => PrimarySan(ev'.pairs[i].move1) \in ev'.processed
            /\ ~ev'.restarted => possibleMoves \subseteq ev'.processed
            /\ ~ev'.hasMove => possibleMoves' = ev'.processed
            /\ ev'.hasMove => possibleMoves' = {}
       /\ ev'.kind # "scan" => possibleMoves' = possibleMoves]_vars

\* a greedy commit in a scan that keeps a notation from an earlier scan
\* whose score is no longer positive
C10_Witness ==
    /\ ScanDone /\ ev.hasGreedyMove /\ ~ev.restarted
    /\ \E i \in 1 .. Len(ev.pairs) :
          /\ PrimarySan(ev.pairs[i].move1) \in possibleMoves
          /\ calculateScore(state, ev.pairs[i].move1) <= 0

(***************************************************************************)
(* Properties of the executor.                                             *)
(***************************************************************************)
\* what a command asks of the arm, without its settle delay
StepOf(command) ==
    [type |-> command.type, pose |-> command.pose,
     moveType |-> command.moveType, action |-> command.action]

StepsOf(commands) == [i \in DOMAIN commands |-> StepOf(commands[i])]

MoveStep(pose, moveType) ==
    [type |-> "move", pose |-> pose, moveType |-> moveType, action |-> ""]

GripperStep(action) ==
    [type |-> "gripper", pose |-> HomePose, moveType |-> "", action |-> action]

IsPrefix(s, t) == Len(s) <= Len(t) /\ s = SubSeq(t, 1, Len(s))

\* the nine steps from square from to square to, as the documentation lists them
NineSteps(from, to) ==
    << MoveStep(SquarePose(from, "clearance"), "clearance"),
       MoveStep(SquarePose(from, "pickup"), "vertical"),
       GripperStep("close"),
       MoveStep(SquarePose(from, "clearance"), "vertical"),
       MoveStep(SquarePose(to, "clearance"), "clearance"),
       MoveStep(SquarePose(to, "pickup"), "vertical"),
       GripperStep("open"),
       MoveStep(SquarePose(to, "clearance"), "vertical"),
       MoveStep(HomePose, "clearance") >>

\* the eight steps that take the piece on square sq to the drop zone
RemovalSteps(sq) ==
    << MoveStep(SquarePose(sq, "clearance"), "clearance"),
       MoveStep(SquarePose(sq, "pickup"), "vertical"),
       GripperStep("close"),
       MoveStep(SquarePose(sq, "clearance"), "vertical"),
       MoveStep(DropPose("clearance"), "clearance"),
       MoveStep(DropPose("own"), "vertical"),
       GripperStep("open"),
       MoveStep(DropPose("clearance"), "vertical") >>

\* C11: for a move to an empty square executeRobotMove issues the nine steps
\* clearance to source, descent, close, ascent, clearance to destination,
\* descent, open, ascent, home, in this order: what it has issued so far is
\* always a prefix of them, and a call that resolved has issued all nine.
C11_NonCaptureNineSteps ==
    \A r \in DOMAIN runs :
        ~runs[r].moveData.isCapture =>
            /\ IsPrefix(StepsOf(runs[r].issued),
                        NineSteps(runs[r].moveData.sourceSquare,
                                  runs[r].moveData.destSquare))
            /\ runs[r].phase = "resolved" => Len(runs[r].issued) = 9

C11_Witness ==
    \E r \in DOMAIN runs :
        /\ ~runs[r].moveData.isCapture
        /\ runs[r].phase = "resolved"
        /\ Len(runs[r].issued) = 9

\* C12: for a capture executeRobotMove issues seventeen steps: the eight that
\* take the captured piece from the destination square to the drop zone,
\* then the nine of the move itself; the gripper never closes on the source
\* square before it has opened over the drop zone.
C12_CaptureSeventeenSteps ==
    \A r \in DOMAIN runs :
        runs[r].moveData.isCapture =>
            /\ IsPrefix(StepsOf(runs[r].issued),
                        RemovalSteps(runs[r].moveData.destSquare)
                        \o NineSteps(runs[r].moveData.sourceSquare,
                                     runs[r].moveData.destSquare))
            /\ runs[r].phase = "resolved" => Len(runs[r].issued) = 17
            /\ \A i \in DOMAIN runs[r].issued :
                  (/\ runs[r].issued[i].pose
                         = SquarePose(runs[r].moveData.sourceSquare, "pickup")
                   /\ runs[r].issued[i].type = "move")
                  => \E j \in 2 .. i - 1 :
                        /\ runs[r].issued[j].action = "open"
                        /\ runs[r].issued[j - 1].pose = DropPose("own")

C12_Witness ==
    \E r \in DOMAIN runs :
        /\ runs[r].moveData.isCapture
        /\ runs[r].phase = "resolved"
        /\ Len(runs[r].issued) = 17

\* the commands of run r that reached the bridge, in the order of arrival
RECURSIVE Received(_, _)
Received(log, r) ==
    IF log = <<>> THEN <<>>
    ELSE Received(SubSeq(log, 1, Len(log) - 1), r)
         \o (IF log[Len(log)][1] = r THEN <<log[Len(log)][2]>> ELSE <<>>)

\* C13: the steps of a sequence reach the bridge one after the other in list
\* order and none is skipped: when step N + 1 is issued, or the sequence has
\* ended, the bridge has received steps 1 .. N and nothing else, in order.
C13_SentInListOrder ==
    \A r \in DOMAIN runs :
        /\ \A k \in DOMAIN Received(bridge, r) : Received(bridge, r)[k] = k
        /\ \A i \in DOMAIN runs[r].issued :
              (i < Len(runs[r].issued) \/ runs[r].phase \in {"delay", "resolved"})
              => i \in DOMAIN Received(bridge, r)

\* C15: once the socket of a step has reported an error, or could not be
\* created, the call has rejected and no further step is issued.
C15_ErrorAborts ==
    \A r \in DOMAIN runs :
        runs[r].errored # {} => runs[r].phase = "rejected" /\ ~runs[r].afterError

\* C16: once a step has timed out (its socket was still connecting when the
\* 1000 ms timer fired) no further step is issued and the call does not
\* resolve.
C16_TimeoutAborts ==
    \A r \in DOMAIN runs :
        \A i \in runs[r].timedOut :
            Len(runs[r].issued) = i /\ runs[r].phase # "resolved"

(***************************************************************************)
(* Properties of the executor's averaging buffer.                          *)
(***************************************************************************)
LastFive(coords) == SubSeq(coords, Len(coords) - 4, Len(coords))

\* the pair of fractions avg is the arithmetic mean of the coordinates
IsMeanOf(avg, coords) ==
    /\ avg # NO_COORD
    /\ avg[1][1] * Len(coords) = SumCoords(coords)[1] * avg[1][2]
    /\ avg[2][1] * Len(coords) = SumCoords(coords)[2] * avg[2][2]

SpecExample == << <<0, 0>>, <<2, 0>>, <<4, 0>>, <<6, 0>>, <<8, 0>> >>

\* C18: addToPieceBaseBuffer returns ready = false and no averages for the
\* first four observations of a key; the fifth returns ready = true with the
\* mean of the five source coordinates ((0,0),(2,0),(4,0),(6,0),(8,0) gives
\* (4,0)) and deletes the key's buffer, so the count starts again.
C18_ReadyOnFifth ==
    rev.kind = "add" =>
        /\ rev.ret.ready <=> Len(obs[rev.key]) % 5 = 0
        /\ ~rev.ret.ready =>
              /\ rev.ret.sourceAvg = NO_COORD /\ rev.ret.capturedAvg = NO_COORD
              /\ pieceBaseBuffers[rev.key].frameCount = Len(obs[rev.key]) % 5
        /\ rev.ret.ready =>
              /\ IsMeanOf(rev.ret.sourceAvg, LastFive(obs[rev.key]))
              /\ rev.key \notin DOMAIN pieceBaseBuffers
        /\ obs[rev.key] = SpecExample =>
              rev.ret.sourceAvg = << <<4, 1>>, <<0, 1>> >>

C18_Witness ==
    /\ rev.kind = "add"
    /\ rev.ret.ready
    /\ obs[rev.key] = SpecExample

(***************************************************************************)
(* Properties of the sidebar and of the loop's collection.                 *)
(***************************************************************************)
InFlight == {r \in DOMAIN runs : ~Settled(runs[r])}

\* C14: at most one sequence of robot commands is in flight at any time.
C14_OneSequenceInFlight == Cardinality(InFlight) <= 1

\* C20: when the source piece of the pending move has been detected in five
\* frames since the engine set the move or the buffer was cleared, the move
\* is ready for execution.
C20_CollectionRestarts ==
    (stockfishMoveRef.uciMove # NO_LAN /\ further >= 5)
    => stockfishMoveRef.readyForExecution

\* C17: handleExecuteRobotMove calls executeRobotMove only if the pending
\* move has readyForExecution and a uciMove, with the data of that move;
\* otherwise it reports that the move is not ready, starts no sequence, sends
\* nothing to the bridge and leaves the executing flag as it was.
C17_RefusedWhenNotReady ==
    [][rev'.kind = "execute" =>
          IF stockfishMoveRef.readyForExecution /\ stockfishMoveRef.uciMove # NO_LAN
          THEN /\ ~rev'.refused
               /\ Len(runs') = Len(runs) + 1
               /\ runs'[Len(runs')].moveData.uciMove = stockfishMoveRef.uciMove
               /\ executingMove'
          ELSE /\ rev'.refused
               /\ runs' = runs
               /\ bridge' = bridge
               /\ executingMove' = executingMove]_vars

C17_Witness ==
    /\ rev.kind = "execute"
    /\ rev.refused
    /\ ~stockfishMoveRef.readyForExecution
    /\ runs = <<>>

\* C19: the loop sets readyForExecution in the frame in which the fifth
\* observation of the source piece has been collected since the key of the
\* pending move was installed in the buffer, and averagedSourcePieceBase is
\* the mean of these five observations; what was collected for another key
\* is not part of it.
C19_ReadyOnFifthObservation ==
    /\ (rev.kind = "scan" /\ rev.ready) =>
           /\ pieceBaseBuffer.moveKey = rev.key
           /\ Len(obs[rev.key]) = 5
           /\ IsMeanOf(stockfishMoveRef.averagedSourcePieceBase, obs[rev.key])
    /\ stockfishMoveRef.readyForExecution =>
           /\ stockfishMoveRef.uciMove \in DOMAIN obs
           /\ Len(obs[stockfishMoveRef.uciMove]) >= 5
           /\ IsMeanOf(stockfishMoveRef.averagedSourcePieceBase,
                       SubSeq(obs[stockfishMoveRef.uciMove], 1, 5))

\* the move became ready in a frame later than the fifth: observations made
\* for another key had been buffered and were discarded
C19_Witness ==
    /\ rev.kind = "scan"
    /\ rev.ready
    /\ nScans > 5
    /\ \E i, j \in DOMAIN obs[rev.key] : obs[rev.key][i] # obs[rev.key][j]

(***************************************************************************)
(* The square assignment on one frame: the frame and the calibration are   *)
(* drawn initially, the loop's calls of getSquares and getUpdate act.      *)
(***************************************************************************)
\* base points: the centroids, a point off a centroid, a point on an edge,
\* a point inside the top view only, and points left of, below and right of
\* the board; every box is 6 wide, and 6 high on a centroid, 12 high elsewhere
InitDetect ==
    LET BasePoints ==
            {Centers[s] : s \in Squares}
                \cup {<<4, 2>>, <<0, 3>>, <<1, 5>>, <<-3, 3>>, <<3, -3>>,
                      <<6 * NSq + 3, 3>>}
        ScoreRows ==
            {[c \in Classes |-> IF c = k THEN 900 ELSE 0] : k \in {0, NCls - 1}}
                \cup {[c \in Classes |-> IF c = 0 THEN 500 ELSE 300]}
        BoxAt(p) == [l |-> p[1] - 3, r |-> p[1] + 3, b |-> p[2] + 2,
                     t |-> IF \E sq \in Squares : Centers[sq] = p
                           THEN p[2] - 4 ELSE p[2] - 10]
    IN  /\ InitBase
        /\ mode = "record"
        /\ \E n \in 0 .. MaxBoxes :
              \E f \in [1 .. n -> BasePoints \X ScoreRows], boundary \in Boundaries :
                  detection =
                      [NoDetection EXCEPT !.boxes = [i \in 1 .. n |-> BoxAt(f[i][1])],
                                          !.scores = [i \in 1 .. n |-> f[i][2]],
                                          !.boundary = boundary]

AssignSquares ==
    /\ ~detection.assigned
    /\ \E squares \in {getSquares(detection.boxes, Centers, detection.boundary)} :
          detection' = [detection EXCEPT !.assigned = TRUE,
                                         !.boxCenters =
                                             [i \in DOMAIN detection.boxes |->
                                                 getBoxCenters(detection.boxes[i])],
                                         !.squares = squares,
                                         !.update = getUpdate(detection.scores, squares)]
    /\ UNCHANGED <<bvars, sched, engine, delayed, lvars, ev, rvars>>

NextDetect == AssignSquares

SpecDetect == InitDetect /\ [][NextDetect]_vars

(***************************************************************************)
(* The loop with its frame requests: a requested frame starts an           *)
(* iteration, which ends at once on the skip branch and is suspended in    *)
(* await detect on the other; the iteration that runs to its end requests  *)
(* the next frame.  The cleanup function may be called at any time.        *)
(***************************************************************************)
FrameSkip(dt, id) ==
    /\ id \in sched.pending
    /\ LoopSkip(dt)
    /\ sched' = requestAnimationFrame([sched EXCEPT !.pending = @ \ {id}])

FrameDetect(id) ==
    /\ id \in sched.pending
    /\ pc = "loop"
    /\ sched' = [sched EXCEPT !.pending = @ \ {id}, !.awaiting = @ + 1]
    /\ UNCHANGED <<bvars, detection, engine, delayed, lvars, ev, rvars>>

DetectResolves(dt, frame) ==
    /\ sched.awaiting > 0
    /\ LoopScan(dt, Detect(phys, frame), BasesOf(Detect(phys, frame), ORIGIN))
    /\ sched' = IF ev'.threw THEN [sched EXCEPT !.awaiting = @ - 1]
                ELSE requestAnimationFrame([sched EXCEPT !.awaiting = @ - 1])

\* detect throws: the promise of the iteration is rejected at the await
DetectRejects(dt) ==
    /\ sched.awaiting > 0
    /\ pc = "loop"
    /\ sched' = [sched EXCEPT !.awaiting = @ - 1]
    /\ pc' = "dead"
    /\ \E tracked \in {Restart(centersNull, state, possibleMoves, greedyMoveToTime)} :
          /\ state' = tracked.state
          /\ possibleMoves' = tracked.possibleMoves
          /\ greedyMoveToTime' = tracked.greedyMoveToTime
    /\ centersNull' = FALSE
    /\ nScans' = nScans + 1
    /\ now' = now + dt
    /\ ev' = [NoEvent EXCEPT !.kind = "scan", !.restarted = centersNull,
                             !.threw = TRUE, !.endTime = now + dt]
    /\ rev' = [NoREvent EXCEPT !.kind = "scan"]
    /\ UNCHANGED <<bvars, detection, engine, delayed, mode, boardRef, movesPairsRef, lastMoveRef, game,
                   phys, nPhys, streak, sinceGreedy>>
    /\ UNCHANGED <<stockfishMoveRef, pieceBaseBuffer, pieceBaseBuffers, runs,
                   bridge, awaiting, playerColor, isStockfishThinking,
                   thinkingGame, executingMove, autoMode, lastExecutedMove,
                   rendered, effectDeps, obs, further, nOps>>

\* the function findPieces returns
Cleanup ==
    /\ ~sched.cleaned
    /\ sched' = [sched EXCEPT !.cleaned = TRUE,
                              !.pending = IF sched.requestId # 0
                                          THEN @ \ {sched.requestId} ELSE @]
    /\ rev' = [NoREvent EXCEPT !.kind = "cleanup"]
    /\ UNCHANGED <<bvars, detection, engine, delayed, lvars, ev>>
    /\ UNCHANGED <<stockfishMoveRef, pieceBaseBuffer, pieceBaseBuffers, runs,
                   bridge, awaiting, playerColor, isStockfishThinking,
                   thinkingGame, executingMove, autoMode, lastExecutedMove,
                   rendered, effectDeps, obs, further, nOps>>

NextLoop ==
    \/ \E dt \in Deltas, id \in sched.pending : nScans < MaxUpdates /\ FrameSkip(dt, id)
    \/ \E id \in sched.pending : nScans < MaxUpdates /\ FrameDetect(id)
    \/ \E dt \in Deltas, frame \in Frames : DetectResolves(dt, frame)
    \/ \E dt \in Deltas : DetectRejects(dt)
    \/ Cleanup
    \/ SyncRefs
    \/ \E l \in 1 .. (NSq * NSq) : PhysMove(l)

SpecLoop == InitFrames /\ [][NextLoop]_vars

(***************************************************************************)
(* The StockfishEngine instance and the calls of getBestMove.  The worker  *)
(* may answer or stay silent; the timers fire.                             *)
(***************************************************************************)
PageVarsUnchanged ==
    /\ rev' = [NoREvent EXCEPT !.kind = "engine"]
    /\ UNCHANGED <<bvars, detection, sched, delayed, lvars, ev>>
    /\ UNCHANGED <<stockfishMoveRef, pieceBaseBuffer, pieceBaseBuffers, runs,
                   bridge, awaiting, playerColor, isStockfishThinking,
                   thinkingGame, executingMove, autoMode, lastExecutedMove,
                   rendered, effectDeps, obs, further, nOps>>

\* a call of getBestMove up to its await, or to its end when the engine is
\* ready
getBestMove ==
    /\ Len(engine.calls) < MaxCalls
    /\ engine' =
          IF engine.isReady
          THEN [engine EXCEPT !.calls = Append(@, Asked)]
          ELSE [engine EXCEPT
                   !.calls = Append(@, [phase |-> "waiting", readyTimer |-> TRUE,
                                        moveTimer |-> FALSE, result |-> "none"]),
                   !.resolveReady = Len(engine.calls) + 1]
    /\ PageVarsUnchanged

\* worker.onmessage with readyok or uciok
WorkerReady ==
    /\ ~engine.readyok
    /\ engine' = [CallResolveReady(engine)
                     EXCEPT !.isReady = TRUE, !.readyok = TRUE]
    /\ PageVarsUnchanged

\* the 3000 ms timer of initEngine
InitTimeout ==
    /\ engine.initTimer
    /\ engine' = [engine EXCEPT !.initTimer = FALSE, !.isReady = TRUE]
    /\ PageVarsUnchanged

\* the 5000 ms timer of the waitForReady of call i
ReadyTimeout(i) ==
    /\ i \in DOMAIN engine.calls
    /\ engine.calls[i].readyTimer
    /\ engine' = [CallResolveReady(engine)
                     EXCEPT !.calls[i].readyTimer = FALSE, !.resolveReady = 0]
    /\ PageVarsUnchanged

\* worker.onmessage with a bestmove: every registered moveHandler resolves
BestMove ==
    /\ \E i \in DOMAIN engine.calls : engine.calls[i].phase = "asked"
    /\ engine' = [engine EXCEPT !.calls =
                     [i \in DOMAIN @ |->
                         IF @[i].phase = "asked"
                         THEN [@[i] EXCEPT !.phase = "done", !.result = "bestmove"]
                         ELSE @[i]]]
    /\ PageVarsUnchanged

\* the timeMs + 3000 timer of call i
MoveTimeout(i) ==
    /\ i \in DOMAIN engine.calls
    /\ engine.calls[i].moveTimer
    /\ engine' = [engine EXCEPT
                     !.calls[i] = IF @.phase = "asked"
                                  THEN [@ EXCEPT !.phase = "done", !.result = "fallback",
                                                 !.moveTimer = FALSE]
                                  ELSE [@ EXCEPT !.moveTimer = FALSE]]
    /\ PageVarsUnchanged

NextEngine ==
    \/ getBestMove
    \/ WorkerReady
    \/ InitTimeout
    \/ \E i \in 1 .. MaxCalls : ReadyTimeout(i)
    \/ BestMove
    \/ \E i \in 1 .. MaxCalls : MoveTimeout(i)

\* every timer that was set fires
SpecEngine ==
    /\ InitFrames
    /\ [][NextEngine]_vars
    /\ WF_vars(InitTimeout)
    /\ \A i \in 1 .. MaxCalls : WF_vars(ReadyTimeout(i)) /\ WF_vars(MoveTimeout(i))

(***************************************************************************)
(* The play page and its requests to the engine: the colour menu, the      *)
(* trigger effect, the delayed call of handleColorSelect.  The engine is   *)
(* ready and answers every request with a legal move.                      *)
(***************************************************************************)
handleColorSelect(selectedColor) ==
    /\ mode = "play"
    /\ Committed
    /\ playerColor' = selectedColor
    /\ game' = makeUpdatePayload(InitBoard, InitBoard, NO_LAN, FALSE)
    /\ pc' = IF pc = "dead" THEN "dead" ELSE "sync"
    /\ stockfishMoveRef' = NoMove
    /\ lastExecutedMove' = NO_LAN
    /\ RenderWith(NoMove, autoMode, NO_LAN)
    /\ further' = 0
    /\ delayed' = IF selectedColor = 1
                  THEN [delayed EXCEPT !.closures =
                           Append(@, [isStockfishThinking |-> isStockfishThinking])]
                  ELSE delayed
    /\ nOps' = nOps + 1
    /\ UNCHANGED ev
    /\ UNCHANGED <<bvars, detection, sched, engine, mode, centersNull, state,
                   possibleMoves, greedyMoveToTime, boardRef, movesPairsRef,
                   lastMoveRef, now, phys, nScans, nPhys, streak, sinceGreedy>>
    /\ UNCHANGED <<pieceBaseBuffer, pieceBaseBuffers, bridge,
                   isStockfishThinking, thinkingGame, autoMode, obs>>

\* applyStockfishMove up to its await, with the isStockfishThinking its
\* closure holds
applyStockfishMove(closure) ==
    /\ ~closure.isStockfishThinking
    /\ game.after.turn # playerColor

PageCall(passes) ==
    /\ isStockfishThinking' = (passes \/ isStockfishThinking)
    /\ rev' = [NoREvent EXCEPT !.kind = "think", !.refused = ~passes]
    /\ UNCHANGED <<bvars, detection, sched, engine, lvars, ev>>
    /\ UNCHANGED <<stockfishMoveRef, pieceBaseBuffer, pieceBaseBuffers, runs,
                   bridge, awaiting, playerColor, thinkingGame, executingMove,
                   autoMode, lastExecutedMove, rendered, effectDeps, obs,
                   further, nOps>>

\* the 100 ms timer of the trigger effect: the call of the applyStockfishMove
\* of the last render
EffectCall ==
    /\ mode = "play"
    /\ ~isStockfishThinking
    /\ game.after.turn # playerColor
    /\ applyStockfishMove([isStockfishThinking |-> isStockfishThinking])
    /\ delayed' = [delayed EXCEPT !.requests = Append(@, game.after)]
    /\ PageCall(TRUE)

\* the 500 ms timer of handleColorSelect: the call of the applyStockfishMove
\* it captured
DelayedCall ==
    /\ delayed.closures # <<>>
    /\ \E passes \in {applyStockfishMove(Head(delayed.closures))} :
          /\ delayed' = [closures |-> Tail(delayed.closures),
                         requests |-> IF passes
                                      THEN Append(delayed.requests, game.after)
                                      ELSE delayed.requests]
          /\ PageCall(passes)

\* applyStockfishMove after its await, for request i: the engine answers
\* with the move l, or has none
CallDone(i, l) ==
    /\ i \in DOMAIN delayed.requests
    /\ \E g \in {delayed.requests[i]} :
          /\ IF LegalLans(g) = {} THEN l = NO_LAN ELSE l \in LegalLans(g)
          /\ stockfishMoveRef' = IF l = NO_LAN THEN stockfishMoveRef
                                 ELSE EngineMoveOf(g, l)
          /\ IF l # NO_LAN /\ game.after = g
             THEN /\ game' = makeUpdatePayload(g, ApplyLan(g, l), l, FALSE)
                  /\ pc' = IF pc = "dead" THEN "dead" ELSE "sync"
             ELSE UNCHANGED <<game, pc>>
          /\ further' = IF l = NO_LAN THEN further ELSE 0
    /\ isStockfishThinking' = FALSE
    /\ delayed' = [delayed EXCEPT !.requests =
                      [j \in 1 .. (Len(@) - 1) |-> IF j < i THEN @[j] ELSE @[j + 1]]]
    /\ rev' = [NoREvent EXCEPT !.kind = "engine", !.key = l]
    /\ UNCHANGED ev
    /\ UNCHANGED <<bvars, detection, sched, engine, mode, centersNull, state,
                   possibleMoves, greedyMoveToTime, boardRef, movesPairsRef,
                   lastMoveRef, now, phys, nScans, nPhys, streak, sinceGreedy>>
    /\ UNCHANGED <<pieceBaseBuffer, pieceBaseBuffers, runs, bridge, awaiting,
                   playerColor, thinkingGame, executingMove, autoMode,
                   lastExecutedMove, rendered, effectDeps, obs, nOps>>

\* a timer of the page is running or a request is outstanding
PageDue ==
    \/ delayed.closures # <<>>
    \/ delayed.requests # <<>>

NextSelect ==
    \/ \E c \in {0, 1} : nOps < MaxSelects /\ handleColorSelect(c)
    \/ EffectCall
    \/ DelayedCall
    \/ \E i \in 1 .. (MaxSelects + 1), l \in 0 .. (NSq * NSq) : CallDone(i, l)
    \/ SyncRefs
    \/ nScans < MaxUpdates /\ ~Busy /\ ~PageDue
       /\ LoopScan(600, Detect(phys, "seen"), BasesOf(Detect(phys, "seen"), ORIGIN))
       /\ UNCHANGED sched
    \/ \E l \in 1 .. (NSq * NSq) : ~Busy /\ ~PageDue /\ PhysMove(l)

\* the page as it is mounted: the human plays white
InitSelect == InitBase /\ mode = "play" /\ detection = NoDetection

SpecSelect == InitSelect /\ [][NextSelect]_vars

(***************************************************************************)
(* RobotControl: its connection to the bridge and sendBridgeCommand.  The  *)
(* bridge answers a command or not, with or without the id of the command, *)
(* and sends messages nobody asked for; sockets close at any time.         *)
(* Commands are explored on the first connection, until the 2000 ms timer  *)
(* of a reconnection fires; reconnections are explored by themselves.      *)
(***************************************************************************)
CtlVarsUnchanged == UNCHANGED <<detection, sched, engine, delayed, lvars, ev, rvars>>

\* the calls of sendBridgeCommand in the component: command type and timeout
BridgeCalls == {<<"status", 5000>>, <<"move", 10000>>}

sendBridgeCommand(command, timeout) ==
    /\ Len(ctl.requests) < MaxRequests
    /\ ctl' = [ctl EXCEPT !.requests =
                  Append(@, IF ctl.wsRef = 0 \/ ctl.sockets[ctl.wsRef] # "open"
                            THEN Refused(command, timeout)
                            ELSE NewRequest(ctl, command, timeout))]
    /\ CtlVarsUnchanged

\* the timer of call i
BridgeTimeout(i) ==
    /\ i \in DOMAIN ctl.requests
    /\ ctl.requests[i].timer
    /\ \E r \in {ctl.requests[i]} :
          ctl' = [ctl EXCEPT !.requests[i] =
                     [r EXCEPT !.timer = FALSE,
                               !.listening = IF ctl.wsRef = r.sock THEN FALSE ELSE @,
                               !.status = IF @ = "pending" THEN "rejected" ELSE @,
                               !.reason = IF r.status = "pending"
                                          THEN "timeout" ELSE @]]
    /\ CtlVarsUnchanged

\* a message of the bridge on socket k: the answer to call j, with or without
\* its id, or (j = 0) a message nobody asked for; every listener of the socket
\* is called
BridgeMessage(k, j, withId) ==
    /\ k \in DOMAIN ctl.sockets
    /\ ctl.sockets[k] \in {"open", "closing"}
    /\ j = 0 => ~withId
    /\ j # 0 => /\ j \in DOMAIN ctl.requests
                /\ ctl.requests[j].openAtCall
                /\ ctl.requests[j].sock = k
    /\ \E dataId \in {IF withId THEN ctl.requests[j].id ELSE 0} :
          ctl' = [ctl EXCEPT !.requests =
                     [i \in DOMAIN @ |-> handleMessage(ctl, @[i], k, dataId, j)]]
    /\ CtlVarsUnchanged

\* Date.now() advances; only the advance after a call changes a messageId
Tick ==
    /\ \E i \in DOMAIN ctl.requests : ctl.requests[i].id = ctl.clock
    /\ ctl' = [ctl EXCEPT !.clock = @ + 1]
    /\ CtlVarsUnchanged

\* onopen of socket k
WsOnOpen(k) ==
    /\ k \in DOMAIN ctl.sockets
    /\ ctl.sockets[k] = "connecting"
    /\ ctl' = [ctl EXCEPT !.sockets[k] = "open", !.reconnectAttempt = 0,
                          !.sinceOpen = 0]
    /\ CtlVarsUnchanged

\* onclose of socket k: the connection failed, was lost or was closed
WsOnClose(k) ==
    /\ k \in DOMAIN ctl.sockets
    /\ ctl.sockets[k] # "closed"
    /\ ctl' = IF ctl.reconnectAttempt < maxReconnectAttempts
              THEN [ctl EXCEPT !.sockets[k] = "closed",
                               !.reconnectAttempt = @ + 1,
                               !.timers = @ + 1]
              ELSE [ctl EXCEPT !.sockets[k] = "closed"]
    /\ CtlVarsUnchanged

\* the 2000 ms timer of onclose: connectWebSocket
connectWebSocket ==
    /\ ctl.timers > 0
    /\ Len(ctl.sockets) < MaxSockets
    /\ ctl' = [ctl EXCEPT !.timers = @ - 1,
                          !.sockets = Append(@, "connecting"),
                          !.wsRef = Len(ctl.sockets) + 1,
                          !.sinceOpen = @ + 1]
    /\ CtlVarsUnchanged

\* the cleanup of the effect, on unmount
CtlCleanup ==
    /\ ctl.mounted
    /\ ctl' = IF ctl.wsRef = 0 THEN [ctl EXCEPT !.mounted = FALSE]
              ELSE [ctl EXCEPT !.mounted = FALSE,
                               !.sockets[ctl.wsRef] =
                                   IF @ = "closed" THEN "closed" ELSE "closing",
                               !.wsRef = 0]
    /\ CtlVarsUnchanged

NextBridge ==
    \/ \E call \in BridgeCalls : sendBridgeCommand(call[1], call[2])
    \/ \E i \in 1 .. MaxRequests : BridgeTimeout(i)
    \/ \E k \in 1 .. MaxSockets, j \in 0 .. MaxRequests, withId \in BOOLEAN :
          BridgeMessage(k, j, withId)
    \/ Tick
    \/ \E k \in 1 .. MaxSockets : WsOnOpen(k)
    \/ \E k \in 1 .. MaxSockets : WsOnClose(k)
    \/ CtlCleanup

\* the connection alone
NextConnect ==
    \/ \E k \in 1 .. MaxSockets : WsOnOpen(k)
    \/ \E k \in 1 .. MaxSockets : WsOnClose(k)
    \/ connectWebSocket
    \/ CtlCleanup

SpecConnect == InitFrames /\ [][NextConnect]_vars

\* every timer that was set and not cleared fires
SpecBridge ==
    /\ InitFrames
    /\ [][NextBridge]_vars
    /\ \A i \in 1 .. MaxRequests : WF_vars(BridgeTimeout(i))

(***************************************************************************)
(* Claims C21 .. C30                                                       *)
(***************************************************************************)

\* v is decay * old + (1 - decay) * new with decay 0.5, on the fixed-point
\* confidences of the model (the half of an odd sum is cut off)
DecayedMix(v, old, new) == 2 * v <= old + new /\ old + new <= 2 * v + 1

\* the belief state a scan starts from
ScanBase == IF centersNull THEN zeros ELSE state

(* C21: every scan replaces every cell of the belief state by
   0.5 * state + 0.5 * update, once, and leaves no cell out; a skipped frame
   leaves the state alone.  A cell that is 0 and sees 0.9 becomes 0.45, sees
   0.9 again and becomes 0.675, and a cell that is 0 and sees 0 stays 0. *)
C21_UpdateState ==
    [][/\ ev'.kind = "skip" => state' = state
       /\ ev'.kind = "scan" =>
            \E frame \in Frames :
                LET update == Detect(phys, frame) IN
                /\ DOMAIN state' = Squares
                /\ \A s \in Squares :
                     /\ DOMAIN state'[s] = Classes
                     /\ \A c \in Classes :
                          /\ DecayedMix(state'[s][c], ScanBase[s][c], update[s][c])
                          /\ ScanBase[s][c] = 0 /\ update[s][c] = 900
                                => state'[s][c] = 450
                          /\ ScanBase[s][c] = 450 /\ update[s][c] = 900
                                => state'[s][c] = 675
                          /\ ScanBase[s][c] = 0 /\ update[s][c] = 0
                                => state'[s][c] = 0]_vars

\* two identical frames from zeros: 0.675 on the cell of the white piece,
\* 0 on a cell that was never reported
C21_Witness ==
    /\ ev.kind = "scan"
    /\ nScans = 2
    /\ state[0][0] = 675
    /\ state[1][0] = 0

RECURSIVE SeqSum(_)
SeqSum(q) == IF q = <<>> THEN 0 ELSE Head(q) + SeqSum(Tail(q))

\* the highest confidence of any class on square sq
TopConfidence(st, sq) ==
    CHOOSE v \in {st[sq][c] : c \in Classes} : \A c \in Classes : st[sq][c] <= v

\* sum over from of (1 - max_c st[sq][c] - 0.6) plus
\* sum over i of (st[to[i]][targets[i]] - 0.6)
ScoreFormula(st, move) ==
    SeqSum([i \in DOMAIN move.from |-> 1000 - TopConfidence(st, move.from[i]) - 600])
    + SeqSum([i \in DOMAIN move.to |-> st[move.to[i]][move.targets[i]] - 600])

\* the belief state with cell (s, c) raised by 0.1, all other cells fixed
Raised(st, s, c) == [st EXCEPT ![s][c] = @ + 100]

\* the descriptors scored in the last scan
ScoredMoves ==
    {d \in UNION {{ev.pairs[i].move1, ev.pairs[i].move2, ev.pairs[i].moves} :
                      i \in DOMAIN ev.pairs} : ~IsNull(d)}

(* C22: the score of a move is the sum over its from-squares of
   (1 - highest confidence on the square - 0.6) plus the sum over its
   to-squares of (confidence of the target class - 0.6); with all other cells
   fixed it grows when a target confidence grows and falls when the highest
   confidence of a from-square grows. *)
C22_ScoreFormula ==
    ScanDone =>
        /\ ~IsNull(ev.bestMove) => ev.bestScore1 = ScoreFormula(state, ev.bestMove)
        /\ ~IsNull(ev.bestMoves) => ev.bestJointScore = ScoreFormula(state, ev.bestMoves)
        /\ \A move \in ScoredMoves :
             /\ calculateScore(state, move) = ScoreFormula(state, move)
             /\ \A i \in DOMAIN move.to :
                  calculateScore(Raised(state, move.to[i], move.targets[i]), move)
                      > calculateScore(state, move)
             /\ \A i \in DOMAIN move.from : \A c \in Classes :
                  LET up == Raised(state, move.from[i], c) IN
                  TopConfidence(up, move.from[i]) > TopConfidence(state, move.from[i])
                      => calculateScore(up, move) < calculateScore(state, move)

\* a pair of moves with more than one term in a sum was scored positive on a
\* state that holds evidence on a from-square too
C22_Witness ==
    /\ ScanDone
    /\ ~IsNull(ev.bestMoves)
    /\ Len(ev.bestMoves.from) + Len(ev.bestMoves.to) > 2
    /\ ev.bestJointScore > 0
    /\ \E i \in DOMAIN ev.bestMoves.from :
          TopConfidence(state, ev.bestMoves.from[i]) > 0

\* p lies strictly outside the convex quadrilateral: some edge has p strictly
\* on the side where the other corners are not
StrictlyOutside(p, boundary) ==
    \E k \in 1 .. 4 :
        LET from == boundary[k]
            to == boundary[(k % 4) + 1]
            other == boundary[((k + 1) % 4) + 1]
            side(q) == (to[1] - from[1]) * (q[2] - from[2])
                       - (to[2] - from[2]) * (q[1] - from[1])
        IN  side(p) * side(other) < 0

\* the boxes the assignment put on square s
BoxesOn(s) == {i \in DOMAIN detection.boxes : detection.squares[i] = s}

(* C23: a box whose base point lies strictly outside the boundary is assigned
   -1 whatever centroid is nearest; every cell of the update is the highest
   confidence of its class over the boxes assigned to its square, 0 when there
   is none, so that a box assigned -1 contributes nothing. *)
C23_Assignment ==
    detection.assigned =>
        /\ \A i \in DOMAIN detection.boxes :
             StrictlyOutside(getBoxCenters(detection.boxes[i]), detection.boundary)
                 => detection.squares[i] = -1
        /\ \A s \in Squares : \A c \in Classes :
             /\ BoxesOn(s) = {} => detection.update[s][c] = 0
             /\ BoxesOn(s) # {} =>
                  /\ \E i \in BoxesOn(s) : detection.update[s][c] = detection.scores[i][c]
                  /\ \A i \in BoxesOn(s) : detection.update[s][c] >= detection.scores[i][c]

\* a box left of the board, nearest to square 0, with confidence 0.9 was
\* assigned -1, and the update of square 0 is the 0.5 of the box that is on it
C23_Witness ==
    /\ detection.assigned
    /\ \E i, j \in DOMAIN detection.boxes :
          /\ getBoxCenters(detection.boxes[i]) = <<-3, 3>>
          /\ detection.scores[i][0] = 900
          /\ detection.squares[i] = -1
          /\ detection.squares[j] = 0
          /\ detection.scores[j][0] = 500
          /\ detection.update[0][0] = 500

\* the notations whose first move scores positive on the belief state st
PositiveFirst(st, pairs) ==
    {PrimarySan(pairs[i].move1) : i \in {j \in DOMAIN pairs :
                                           calculateScore(st, pairs[j].move1) > 0}}

(* C24: the first scan after the loop was idle (not playing, or no valid
   video) starts from a belief state of zeros, an empty possibleMoves and an
   empty timer map: its state is half the frame's update, its possible moves
   are those the new state alone makes positive, its timers all start at this
   scan, and it makes no greedy commit. *)
C24_RestartResets ==
    [][ev'.kind = "scan" /\ centersNull =>
          /\ ev'.restarted
          /\ \E frame \in Frames :
                state' = [s \in Squares |-> [c \in Classes |->
                             Detect(phys, frame)[s][c] \div 2]]
          /\ ev'.processed = PositiveFirst(state', movesPairsRef.current)
          /\ possibleMoves' \subseteq ev'.processed
          /\ \A k \in DOMAIN greedyMoveToTime' : greedyMoveToTime'[k] = now'
          /\ ~ev'.hasGreedyMove]_vars

\* a scan restarted the tracking after a move had been committed
C24_Witness ==
    /\ ScanDone
    /\ ev.restarted
    /\ lastMoveRef # NO_LAN
    /\ state # zeros

\* the step is a scan of a frame on which detect returned no box: the update
\* is all zeros (a frame that shows the board reports at least one piece)
EmptyFrameScan ==
    /\ ev'.kind = "scan"
    /\ \A s \in Squares : \A c \in Classes :
          DecayedMix(state'[s][c], ScanBase[s][c], 0)

(* C25: an iteration that has no detection (no video, an empty frame, a source
   without dimensions) skips fusion and scoring: state, possibleMoves and the
   timers stay as they are, nothing is committed, and the centers are marked
   for recomputation. *)
C25_DetectionLossSkips ==
    [][ev'.kind = "skip" \/ EmptyFrameScan =>
          /\ state' = state
          /\ possibleMoves' = possibleMoves
          /\ greedyMoveToTime' = greedyMoveToTime
          /\ ev'.boardMoves = 0
          /\ centersNull']_vars

(* C26: no failure inside an iteration ends the loop: after an iteration in
   which detect or the rules engine threw, the next frame is still
   requested. *)
C26_LoopSurvives ==
    ScanDone /\ ev.threw /\ ~sched.cleaned => sched.pending # {}

(* C27: once the cleanup function has been called no iteration runs and none
   is requested, also when it is called while an iteration is suspended in
   await detect. *)
C27_CleanupStops ==
    [][sched.cleaned =>
          /\ ev'.kind \notin {"scan", "skip"}
          /\ sched'.pending = {}]_vars

\* the iterations that are requested, running or suspended
Iterations == Cardinality(sched.pending) + sched.awaiting

(* C28: iterations do not overlap: the next frame is requested at the end of
   the running iteration only, so at most one iteration is requested,
   running or suspended at any time. *)
C28_OneIteration ==
    /\ Iterations <= 1
    /\ sched.awaiting > 0 => sched.pending = {}

\* an iteration is suspended in await detect after earlier ones have run
C28_Witness ==
    /\ sched.awaiting = 1
    /\ nScans >= 2
    /\ sched.requestId >= 3

(* C29: at most one getBestMove of the page is outstanding: while one is, a
   further trigger, be it the effect's timer or the delayed call of
   handleColorSelect, makes no new request. *)
C29_OneRequest == Len(delayed.requests) <= 1

(* C30: every call of getBestMove resolves in the end, with the engine's move
   or with a fallback move, whether or not the engine was ready when it was
   called and whether or not other calls wait for the engine. *)
C30_EveryCallResolves ==
    \A i \in 1 .. MaxCalls :
        (i \in DOMAIN engine.calls) ~> (i \in DOMAIN engine.calls
                                        /\ engine.calls[i].phase = "done")

(***************************************************************************)
(* Claims C31 .. C40.                                                      *)
(***************************************************************************)

(* C31: every call of sendBridgeCommand settles exactly once and never
   hangs: it is rejected at once when the socket is not open; otherwise it
   is resolved by a message or rejected by its own timer (5000 ms, 10000 ms
   for a move), which runs as long as the call is pending whatever the other
   calls do; a settled call keeps its outcome; every call settles. *)
C31_SettlesOnce ==
    /\ [](\A i \in DOMAIN ctl.requests :
             LET r == ctl.requests[i]
             IN  /\ r.timeout = IF r.type = "move" THEN 10000 ELSE 5000
                 /\ ~r.openAtCall => r.status = "rejected" /\ r.reason = "not connected"
                 /\ r.openAtCall /\ r.status = "rejected" => r.reason = "timeout"
                 /\ r.status = "resolved" => r.by >= 0
                 /\ r.status = "pending" => r.timer)
    /\ [][\A i \in DOMAIN ctl.requests :
             ctl.requests[i].status # "pending"
                 => /\ ctl'.requests[i].status = ctl.requests[i].status
                    /\ ctl'.requests[i].reason = ctl.requests[i].reason
                    /\ ctl'.requests[i].by = ctl.requests[i].by]_vars
    /\ \A i \in 1 .. MaxRequests :
          (i \in DOMAIN ctl.requests)
              ~> (i \in DOMAIN ctl.requests /\ ctl.requests[i].status # "pending")

\* the first call has timed out while the second one was answered
C31_Witness ==
    /\ Len(ctl.requests) >= 2
    /\ ctl.requests[1].status = "rejected"
    /\ ctl.requests[1].reason = "timeout"
    /\ ctl.requests[2].status = "resolved"
    /\ ctl.requests[2].by = 2

(* C35: a pending call of sendBridgeCommand is resolved only by the message
   that answers it and carries its id: never by a message nobody asked for,
   nor by the answer to another call. *)
C35_OwnAnswerOnly ==
    \A i \in DOMAIN ctl.requests :
        ctl.requests[i].status = "resolved" => ctl.requests[i].by = i

(* C39: at most 3 connections are attempted after a close without an open
   in between, and once the cleanup has run on unmount no WebSocket is
   created. *)
C39_ReconnectBounded ==
    [][/\ ctl'.sinceOpen <= maxReconnectAttempts
       /\ ~ctl.mounted => Len(ctl'.sockets) = Len(ctl.sockets)]_vars

(* C38: every call of waitForReady resolves in the end, with true once the
   engine is ready or with false after its 5 s timer, also when several
   callers wait at the same time: no caller stays at its await for ever. *)
C38_EveryWaiterResolves ==
    \A i \in 1 .. MaxCalls :
        (i \in DOMAIN engine.calls /\ engine.calls[i].phase = "waiting")
            ~> (i \in DOMAIN engine.calls /\ engine.calls[i].phase # "waiting")

(* C32: after a scan that commits a confirmed pair the timer map is empty,
   and after a scan that commits greedily it holds the fixed key only, no
   notation; hence the notation of a greedy commit was entered in the map by
   an earlier scan of the same tracking, more than 1000 ms before. *)
C32_TimersCleared ==
    [][nScans' # nScans /\ ev'.kind = "scan" /\ ~ev'.threw =>
          /\ ev'.hasMove => greedyMoveToTime' = EmptyTimers
          /\ ev'.hasGreedyMove =>
                LET move == PrimarySan(ev'.bestMove)
                IN  /\ DOMAIN greedyMoveToTime' = {GREEDY_MOVE_KEY}
                    /\ move # GREEDY_MOVE_KEY
                    /\ ~centersNull
                    /\ move \in DOMAIN greedyMoveToTime
                    /\ ev'.endTime - greedyMoveToTime[move] > GREEDY_DELAY
                    /\ greedyMoveToTime'[GREEDY_MOVE_KEY] = greedyMoveToTime[move]]_vars

\* a greedy commit after an earlier commit: its notation was first seen after
\* that commit
C32_Witness ==
    /\ ScanDone /\ ev.hasGreedyMove
    /\ ev.board # InitBoard
    /\ DOMAIN greedyMoveToTime = {GREEDY_MOVE_KEY}
    /\ greedyMoveToTime[GREEDY_MOVE_KEY] = ev.firstSeen
    /\ ev.firstSeen > 0

(* C33: the base point of a detected box with left l, right r, top t and
   bottom b is ((l + r) / 2, b - h / 3) with h = b - t the height of the box:
   one third of the height above the bottom, whatever the shape of the box. *)
C33_BasePoint ==
    detection.assigned =>
        \A i \in DOMAIN detection.boxes :
            LET box == detection.boxes[i]
            IN  detection.boxCenters[i] =
                    <<(box.l + box.r) \div 2, box.b - (box.b - box.t) \div 3>>

\* the first moves of a list scored once per notation: the later pairs of a
\* notation already met are skipped
RECURSIVE DistinctFirst(_, _, _)
DistinctFirst(acc, st, movesPairs) ==
    IF movesPairs = <<>> THEN acc
    ELSE LET move1 == Head(movesPairs).move1
             score == ScoreFormula(st, move1)
         IN  DistinctFirst(
                 IF move1.sans[1] \in acc.seen THEN acc
                 ELSE [acc EXCEPT
                          !.seen = @ \cup {move1.sans[1]},
                          !.possibleMoves = IF score > 0 THEN @ \cup {move1.sans[1]} ELSE @,
                          !.bestMove = IF score > acc.bestScore1 THEN move1 ELSE @,
                          !.bestScore1 = IF score > @ THEN score ELSE @],
                 st, Tail(movesPairs))

(* C34: on the move pairs of a position, where the pairs of one notation
   carry one descriptor, a scan's bestMove, bestScore1 and possibleMoves are
   those obtained by scoring every distinct first move once, and bestMove is
   the first move of the list with the highest score. *)
C34_DistinctFirstMoves ==
    [][nScans' # nScans /\ ev'.kind = "scan" =>
          LET pairs == ev'.pairs
              given == Restart(centersNull, state, possibleMoves,
                               greedyMoveToTime).possibleMoves
              ref == DistinctFirst(InitAcc(given), state', pairs)
              Score(i) == calculateScore(state', pairs[i].move1)
          IN  /\ \A i, j \in DOMAIN pairs :
                    pairs[i].move1.sans[1] = pairs[j].move1.sans[1]
                        => pairs[i].move1 = pairs[j].move1
              /\ ev'.bestMove = ref.bestMove
              /\ ev'.bestScore1 = ref.bestScore1
              /\ ev'.processed = ref.possibleMoves
              /\ pairs # <<>> =>
                    \E i \in DOMAIN pairs :
                        /\ ev'.bestMove = pairs[i].move1
                        /\ ev'.bestScore1 = Score(i)
                        /\ \A j \in DOMAIN pairs :
                              /\ Score(j) <= Score(i)
                              /\ j < i => Score(j) < Score(i)]_vars

\* the best move is plausible and stands in several pairs of a list that
\* holds other first moves too
C34_Witness ==
    /\ ScanDone
    /\ ev.bestScore1 > 0
    /\ GreedySan \in ev.processed
    /\ Cardinality({i \in DOMAIN ev.pairs : ev.pairs[i].move1 = ev.bestMove}) > 1
    /\ \E i \in DOMAIN ev.pairs : ev.pairs[i].move1 # ev.bestMove

\* the pairs of the last scan that carry a reply, whose first move is in
\* possibleMoves, and whose reply does not score below 0
Considered ==
    {i \in DOMAIN ev.pairs :
        /\ ~IsNull(ev.pairs[i].move2)
        /\ ~IsNull(ev.pairs[i].moves)
        /\ ev.pairs[i].move1.sans[1] \in ev.processed
        /\ calculateScore(state, ev.pairs[i].move2) >= 0}

(* C36: when a scan returns a bestMoves, a pair of the list supplied it whose
   first move is in possibleMoves and whose reply scores at least 0 in this
   scan, and its joint score is the best among such pairs; a pair whose first
   move is not in possibleMoves supplies nothing, and without such a pair
   bestMoves is null. *)
C36_PairNeedsPlausibleFirst ==
    ScanDone /\ ~ev.threw =>
        /\ ~IsNull(ev.bestMoves) =>
              \E i \in Considered :
                  /\ ev.pairs[i].moves = ev.bestMoves
                  /\ calculateScore(state, ev.pairs[i].moves) = ev.bestJointScore
                  /\ PrimarySan(ev.bestMoves) = ev.pairs[i].move1.sans[1]
        /\ \A i \in Considered :
              calculateScore(state, ev.pairs[i].moves) <= ev.bestJointScore
        /\ Considered = {} => IsNull(ev.bestMoves)

\* a pair supplies bestMoves whose first move does not score above 0 in this
\* scan: an earlier scan added it to possibleMoves
C36_Witness ==
    /\ ScanDone /\ ~IsNull(ev.bestMoves)
    /\ \E i \in Considered :
          /\ ev.pairs[i].moves = ev.bestMoves
          /\ calculateScore(state, ev.pairs[i].move1) <= 0

(* C37: stockfishMoveRef.current is set to an engine move only when that
   move is legal in the position it was asked for, that position is still
   the position of the game, and the gameUpdate of the move is dispatched. *)
C37_OnlyAppliedMoves ==
    [][/\ Len(delayed'.requests) < Len(delayed.requests)
       /\ rev'.kind = "engine"
       /\ stockfishMoveRef'.uciMove # NO_LAN
       /\ stockfishMoveRef'.uciMove = rev'.key
       => /\ rev'.key \in LegalLans(game.after)
          /\ game' = makeUpdatePayload(game.after, ApplyLan(game.after, rev'.key),
                                       rev'.key, FALSE)]_vars

(* C40: the commands executeRobotMove sends are fixed by sourceSquare,
   destSquare, isCapture and the calibration: two calls whose move data
   differ in sourcePieceBaseCamera, capturedPieceBaseCamera or uciMove only
   issue the same commands in the same order, and a call without the pose
   functions or the square poses is rejected before any command is sent. *)
C40_SequenceIndependent ==
    /\ \A r1, r2 \in DOMAIN runs :
          /\ runs[r1].moveData.sourceSquare = runs[r2].moveData.sourceSquare
          /\ runs[r1].moveData.destSquare = runs[r2].moveData.destSquare
          /\ runs[r1].moveData.isCapture = runs[r2].moveData.isCapture
          => /\ IsPrefix(runs[r1].issued, runs[r2].issued)
                   \/ IsPrefix(runs[r2].issued, runs[r1].issued)
             /\ runs[r1].phase = "resolved" /\ runs[r2].phase = "resolved"
                   => runs[r1].issued = runs[r2].issued
    /\ \A r \in DOMAIN runs :
          /\ Len(Received(bridge, r)) <= Len(runs[r].issued)
          /\ runs[r].issued = <<>>
                => runs[r].phase = "rejected" /\ Received(bridge, r) = <<>>

\* two captures have been carried out to the end, for the same squares, with
\* and without measured piece bases and with different engine moves
C40_Witness ==
    /\ Len(runs) >= 2
    /\ runs[1].phase = "resolved" /\ runs[2].phase = "resolved"
    /\ runs[1].moveData.isCapture /\ runs[2].moveData.isCapture
    /\ runs[1].moveData.sourceSquare = runs[2].moveData.sourceSquare
    /\ runs[1].moveData.sourcePieceBaseCamera # runs[2].moveData.sourcePieceBaseCamera
    /\ runs[1].moveData.capturedPieceBaseCamera # runs[2].moveData.capturedPieceBaseCamera
    /\ runs[1].moveData.uciMove # runs[2].moveData.uciMove
    /\ Len(Received(bridge, 2)) = 17

====
